---- MODULE Spec2Model ----
(***************************************************************************)
(* Model of the developer-portfolio-assistant core:                        *)
(*   - ContextManager (context_manager.py): token-budgeted context buffer  *)
(*     with three compaction strategies;                                   *)
(*   - LongRunningOperation / LongRunningOperationManager                  *)
(*     (long_running.py): checkpointed pause/resume operations persisted   *)
(*     as one JSON document;                                               *)
(*   - A2AProtocol (a2a_protocol.py): the message broker; a message id is  *)
(*     its position in message_history, and a handler is one of three      *)
(*     kinds: it returns, it raises, or it answers a REQUEST;              *)
(*   - portfolio_update (tools/portfolio_update.py) with content_generator *)
(*     and the PersistentMemoryBank: one step per stage, the outcomes of   *)
(*     the GitHub API, the Gemini models and the file system being inputs. *)
(*     Evaluation metrics, the quality score and timings are not           *)
(*     represented: no branch of portfolio_update reads them.              *)
(*   - InMemorySessionService (session_manager.py): the clock counts       *)
(*     whole hours and session ids are numbered in creation order in       *)
(*     place of uuid4 values.                                              *)
(* The storage file of the operation manager may also be replaced from     *)
(* outside the process, by a document it did not write.                    *)
(*                                                                         *)
(* A string is represented by the facts the code uses about it: which      *)
(* text it was built from, its length, and whether it ends with the        *)
(* summarization marker.  Python indices are 0-based; sequence positions   *)
(* here are 1-based, so the entry with Python index i is history[i + 1].   *)
(* Wall-clock fields (entry and checkpoint timestamps, created_at,         *)
(* updated_at) and the entry metadata are not represented: no branch of    *)
(* the code reads them.  A raised ValueError is recorded in opResult.      *)
(***************************************************************************)
EXTENDS Integers, Sequences, FiniteSets, TLC

VARIABLES
    max_tokens,           \* ContextManager.max_tokens
    compaction_strategy,  \* ContextManager.compaction_strategy
    current_tokens,       \* ContextManager.current_tokens
    context_history,      \* ContextManager.context_history
    important_entries,    \* ContextManager.important_entries (0-based indices)
    ctxCall,              \* which ContextManager method was called last
    ctxResult,            \* what that call returned, and whether it compacted
    operations,           \* LongRunningOperationManager.operations (insertion order)
    storage,              \* the storage file of the operation manager
    opCall,               \* the last operation call: method and operation id
    opResult,             \* how it ended: "ok" or the error it raised
    agents,               \* A2AProtocol.agents: name -> handler, in insertion order
    message_queue,        \* A2AProtocol.message_queue
    message_history,      \* A2AProtocol.message_history
    pending_requests,     \* A2AProtocol.pending_requests: the message ids indexed
    relayPc,              \* "idle", or inside process_messages: "processing"
                          \* (at the while test) or "dispatch" (message popped)
    relayMessage,         \* the local variable message of process_messages
    deliveries,           \* every handler invocation so far, in order
    historyCall,          \* the last get_message_history call and its result
    entries,              \* memory_bank.entries
    memory_file,          \* the file of the memory bank
    portfolio_file,       \* portfolio_entry.md: None until it is written
    pipePc,               \* "idle", or the stage portfolio_update is about to run
    pipe,                 \* portfolio_update's arguments and locals, the stages
                          \* and models it has called, and how it ended
    pipeRuns,             \* the number of portfolio_update calls so far
    sessions,             \* InMemorySessionService.sessions: id -> session
    default_ttl,          \* InMemorySessionService.default_ttl, in hours
    session_count,        \* the number of sessions created so far
    clock,                \* datetime.now(), in hours since the start
    sessionCall           \* the last session service call and its result

ctxVars == <<max_tokens, compaction_strategy, current_tokens, context_history,
             important_entries, ctxCall, ctxResult>>

opVars == <<operations, storage, opCall, opResult>>

relayVars == <<agents, message_queue, message_history, pending_requests,
               relayPc, relayMessage, deliveries, historyCall>>

pipeVars == <<entries, memory_file, portfolio_file, pipePc, pipe, pipeRuns>>

sessionVars == <<sessions, default_ttl, session_count, clock, sessionCall>>

nonCtxVars == <<opVars, relayVars, pipeVars, sessionVars>>

nonOpVars == <<ctxVars, relayVars, pipeVars, sessionVars>>

nonRelayVars == <<ctxVars, opVars, pipeVars, sessionVars>>

nonSessionVars == <<ctxVars, opVars, relayVars, pipeVars>>

vars == <<max_tokens, compaction_strategy, current_tokens, context_history,
          important_entries, ctxCall, ctxResult,
          operations, storage, opCall, opResult,
          agents, message_queue, message_history, pending_requests,
          relayPc, relayMessage, deliveries, historyCall,
          entries, memory_file, portfolio_file, pipePc, pipe, pipeRuns,
          sessions, default_ttl, session_count, clock, sessionCall>>

----------------------------------------------------------------------------
(* Bounds and input sets *)

MaxEntries == 3
MaxCheckpoints == 2
MaxMessages == 2
MaxRuns == 2
MaxSessions == 2
MaxHistory == 1
MaxTime == 3
MaxRecords == 2

MaxTokenChoices == {40}
SummarizeMaxTokens == {40, 60}
Strategies == {"importance", "summarize", "truncate", "unknown"}
Texts == {"a"}
Lengths == {0, 40, 60, 100, 101, 160}
Roles == {"user"}
Importances == {1, 5, 8}
RequiredChoices == {0, 10, 25}
OpIds == {"op1"}
OpTypes == {"portfolio_update"}
StateKeys == {"x"}
StateValues == {1, 2}
ErrorMessages == {"boom"}
WriteOutcomes == {"written", "open_failed", "dump_failed"}
AgentNames == {"a", "b"}
Senders == {"a", "user"}
HandlerKinds == {"quiet", "raises", "responds"}
RequestTargets == AgentNames
EventTargets == {"*"}
HistoryFilters == {<<>>, <<"a">>, <<"b">>}
Limits == {0, 1, 2}
Usernames == {"u"}
TtlHours == {1}
SessionIds == 1..MaxSessions
UserIds == {"u"}
SessionValues == {1}
HistoryEntries == {[type |-> "user"]}
FetchOutcomes == {"profile", "error"}
KeyStates == {"present", "missing"}
AttemptOutcomes == {"ok", "not_found", "other"}
ContentLengths == {0, 200}
WriterOutcomes == {"success", "error"}
PersistOutcomes == {"written", "failed"}

----------------------------------------------------------------------------
(* Strings *)

CharsPerToken == 4
SummaryKeep == 100
MarkerLen == 16

Str(t, n) == [text |-> t, len |-> n, summarized |-> FALSE]

StrLen(s) == s.len

\* content[:100] + "... [summarized]"
SummaryOf(s) ==
    [text |-> s.text,
     len |-> (IF s.len < SummaryKeep THEN s.len ELSE SummaryKeep) + MarkerLen,
     summarized |-> TRUE]

\* len(content) // 4
EstimateTokens(s) == StrLen(s) \div CharsPerToken

----------------------------------------------------------------------------
(* ContextManager *)

NewEntry(content, role, importance) ==
    [content |-> content, role |-> role, importance |-> importance,
     tokens |-> EstimateTokens(content)]

\* list.pop(i) for a 0-based index i
Pop(hist, i) == [k \in 1..(Len(hist) - 1) |-> IF k <= i THEN hist[k] ELSE hist[k + 1]]

\* variant: the indices after a removed entry are not shifted
RenumberKeepsIndices(imp, i) == imp

\* { idx - 1 if idx > i else idx for idx in important_entries }
Renumber(imp, i) == {IF idx > i THEN idx - 1 ELSE idx : idx \in imp}

\* "for i in reversed(entries_to_remove)": k is the position in rem handled next
RECURSIVE RemoveReversed(_, _, _, _, _)
RemoveReversed(hist, cur, imp, rem, k) ==
    IF k = 0 THEN [hist |-> hist, cur |-> cur, imp |-> imp]
    ELSE LET i == rem[k] IN
         RemoveReversed(Pop(hist, i), cur - hist[i + 1].tokens,
                        Renumber(imp, i), rem, k - 1)

\* variant: every entry outside the important set is a candidate
RECURSIVE ScanByImportanceNoThreshold(_, _, _, _, _, _)
ScanByImportanceNoThreshold(hist, imp, required, i, rem, freed) ==
    IF i >= Len(hist) THEN [rem |-> rem, freed |-> freed]
    ELSE IF i \notin imp
         THEN LET f == freed + hist[i + 1].tokens IN
              IF f >= required
              THEN [rem |-> Append(rem, i), freed |-> f]
              ELSE ScanByImportanceNoThreshold(hist, imp, required, i + 1,
                                               Append(rem, i), f)
         ELSE ScanByImportanceNoThreshold(hist, imp, required, i + 1, rem, freed)

\* the scan of _compact_by_importance: i is the 0-based index examined next
RECURSIVE ScanByImportance(_, _, _, _, _, _)
ScanByImportance(hist, imp, required, i, rem, freed) ==
    IF i >= Len(hist) THEN [rem |-> rem, freed |-> freed]
    ELSE IF i \notin imp /\ hist[i + 1].importance < 5
         THEN LET f == freed + hist[i + 1].tokens IN
              IF f >= required
              THEN [rem |-> Append(rem, i), freed |-> f]
              ELSE ScanByImportance(hist, imp, required, i + 1, Append(rem, i), f)
         ELSE ScanByImportance(hist, imp, required, i + 1, rem, freed)

\* the scan of _compact_by_truncation
RECURSIVE ScanByTruncation(_, _, _, _, _, _)
ScanByTruncation(hist, imp, required, i, rem, freed) ==
    IF i >= Len(hist) THEN [rem |-> rem, freed |-> freed]
    ELSE IF i \notin imp
         THEN LET f == freed + hist[i + 1].tokens IN
              IF f >= required
              THEN [rem |-> Append(rem, i), freed |-> f]
              ELSE ScanByTruncation(hist, imp, required, i + 1, Append(rem, i), f)
         ELSE ScanByTruncation(hist, imp, required, i + 1, rem, freed)

\* variant: the scan forgets both filters and evicts the oldest entries
CompactByImportanceNoFilter(hist, cur, imp, required) ==
    LET s == ScanByTruncation(hist, {}, required, 0, <<>>, 0)
        r == RemoveReversed(hist, cur, imp, s.rem, Len(s.rem))
    IN [hist |-> r.hist, cur |-> r.cur, imp |-> r.imp, ok |-> s.freed >= required]

\* variant: success is reported as soon as anything was evicted
CompactByImportanceAnyFreed(hist, cur, imp, required) ==
    LET s == ScanByImportance(hist, imp, required, 0, <<>>, 0)
        r == RemoveReversed(hist, cur, imp, s.rem, Len(s.rem))
    IN [hist |-> r.hist, cur |-> r.cur, imp |-> r.imp, ok |-> s.freed > 0]

CompactByImportance(hist, cur, imp, required) ==
    LET s == ScanByImportance(hist, imp, required, 0, <<>>, 0)
        r == RemoveReversed(hist, cur, imp, s.rem, Len(s.rem))
    IN [hist |-> r.hist, cur |-> r.cur, imp |-> r.imp, ok |-> s.freed >= required]

CompactByTruncation(hist, cur, imp, required) ==
    LET s == ScanByTruncation(hist, imp, required, 0, <<>>, 0)
        r == RemoveReversed(hist, cur, imp, s.rem, Len(s.rem))
    IN [hist |-> r.hist, cur |-> r.cur, imp |-> r.imp, ok |-> s.freed >= required]

\* the loop of _compact_by_summarization: i is the 0-based index examined next
RECURSIVE SummarizeLoop(_, _, _, _, _, _, _)
SummarizeLoop(hist, cur, imp, required, n, i, freed) ==
    IF i >= n THEN [hist |-> hist, cur |-> cur, freed |-> freed]
    ELSE IF i \in imp
         THEN SummarizeLoop(hist, cur, imp, required, n, i + 1, freed)
         ELSE LET entry == hist[i + 1]
                  long == StrLen(entry.content) > SummaryKeep
                  content2 == SummaryOf(entry.content)
                  new_tokens == EstimateTokens(content2)
                  delta == entry.tokens - new_tokens
                  hist2 == IF long
                           THEN [hist EXCEPT ![i + 1] =
                                    [entry EXCEPT !.content = content2,
                                                  !.tokens = new_tokens]]
                           ELSE hist
                  cur2 == IF long THEN cur - delta ELSE cur
                  freed2 == IF long THEN freed + delta ELSE freed
              IN IF freed2 >= required
                 THEN [hist |-> hist2, cur |-> cur2, freed |-> freed2]
                 ELSE SummarizeLoop(hist2, cur2, imp, required, n, i + 1, freed2)

\* variant: every position is considered, not only the older half
CompactBySummarizationWholeList(hist, cur, imp, required) ==
    LET r == SummarizeLoop(hist, cur, imp, required, Len(hist), 0, 0)
    IN [hist |-> r.hist, cur |-> r.cur, imp |-> imp, ok |-> r.freed >= required]

\* variant: the entries are shrunk but current_tokens is not adjusted
CompactBySummarizationStaleTotal(hist, cur, imp, required) ==
    LET r == SummarizeLoop(hist, cur, imp, required, Len(hist) \div 2, 0, 0)
    IN [hist |-> r.hist, cur |-> cur, imp |-> imp, ok |-> r.freed >= required]

CompactBySummarization(hist, cur, imp, required) ==
    LET r == SummarizeLoop(hist, cur, imp, required, Len(hist) \div 2, 0, 0)
    IN [hist |-> r.hist, cur |-> r.cur, imp |-> imp, ok |-> r.freed >= required]

\* variant: a strategy name that is not known falls back to truncation
CompactContextResultFallsBack(strategy, hist, cur, imp, required) ==
    IF strategy = "importance" THEN CompactByImportance(hist, cur, imp, required)
    ELSE IF strategy = "summarize" THEN CompactBySummarization(hist, cur, imp, required)
    ELSE CompactByTruncation(hist, cur, imp, required)

\* compact_context: dispatch on the configured strategy
CompactContextResult(strategy, hist, cur, imp, required) ==
    IF strategy = "importance" THEN CompactByImportance(hist, cur, imp, required)
    ELSE IF strategy = "summarize" THEN CompactBySummarization(hist, cur, imp, required)
    ELSE IF strategy = "truncate" THEN CompactByTruncation(hist, cur, imp, required)
    ELSE [hist |-> hist, cur |-> cur, imp |-> imp, ok |-> FALSE]

\* variant: a failed compaction is undone before add_context returns
AddContextResultRestores(strategy, maxTok, hist, cur, imp, content, role, importance) ==
    LET estimated_tokens == EstimateTokens(content)
        need == cur + estimated_tokens > maxTok
        c == IF need
             THEN CompactContextResult(strategy, hist, cur, imp, estimated_tokens)
             ELSE [hist |-> hist, cur |-> cur, imp |-> imp, ok |-> TRUE]
    IN IF ~c.ok
       THEN [hist |-> hist, cur |-> cur, imp |-> imp,
             ok |-> FALSE, compacted |-> need]
       ELSE [hist |-> Append(c.hist, NewEntry(content, role, importance)),
             cur |-> c.cur + estimated_tokens,
             imp |-> IF importance >= 8 THEN c.imp \cup {Len(c.hist)} ELSE c.imp,
             ok |-> TRUE, compacted |-> need]

\* variant: compaction starts as soon as the budget would be reached
AddContextResultEager(strategy, maxTok, hist, cur, imp, content, role, importance) ==
    LET estimated_tokens == EstimateTokens(content)
        need == cur + estimated_tokens >= maxTok
        c == IF need
             THEN CompactContextResult(strategy, hist, cur, imp, estimated_tokens)
             ELSE [hist |-> hist, cur |-> cur, imp |-> imp, ok |-> TRUE]
    IN IF ~c.ok
       THEN [hist |-> c.hist, cur |-> c.cur, imp |-> c.imp,
             ok |-> FALSE, compacted |-> need]
       ELSE [hist |-> Append(c.hist, NewEntry(content, role, importance)),
             cur |-> c.cur + estimated_tokens,
             imp |-> IF importance >= 8 THEN c.imp \cup {Len(c.hist)} ELSE c.imp,
             ok |-> TRUE, compacted |-> need]

\* add_context: the state and return value it produces
AddContextResult(strategy, maxTok, hist, cur, imp, content, role, importance) ==
    LET estimated_tokens == EstimateTokens(content)
        need == cur + estimated_tokens > maxTok
        c == IF need
             THEN CompactContextResult(strategy, hist, cur, imp, estimated_tokens)
             ELSE [hist |-> hist, cur |-> cur, imp |-> imp, ok |-> TRUE]
    IN IF ~c.ok
       THEN [hist |-> c.hist, cur |-> c.cur, imp |-> c.imp,
             ok |-> FALSE, compacted |-> need]
       ELSE [hist |-> Append(c.hist, NewEntry(content, role, importance)),
             cur |-> c.cur + estimated_tokens,
             imp |-> IF importance >= 8 THEN c.imp \cup {Len(c.hist)} ELSE c.imp,
             ok |-> TRUE, compacted |-> need]

DefaultMaxTokens == 32000

\* ContextManager(max_tokens, compaction_strategy)
CtxConstructed(maxTok, strategy) ==
    /\ max_tokens = maxTok
    /\ compaction_strategy = strategy
    /\ current_tokens = 0
    /\ context_history = <<>>
    /\ important_entries = {}
    /\ ctxCall = "init"
    /\ ctxResult = [ok |-> TRUE, compacted |-> FALSE]

\* the module-level singleton: context_manager = ContextManager()
CtxDefault == CtxConstructed(DefaultMaxTokens, "importance")

AddContext(content, role, importance) ==
    /\ Len(context_history) < MaxEntries
    /\ LET r == AddContextResult(compaction_strategy, max_tokens, context_history,
                                 current_tokens, important_entries,
                                 content, role, importance)
       IN /\ context_history' = r.hist
          /\ current_tokens' = r.cur
          /\ important_entries' = r.imp
          /\ ctxResult' = [ok |-> r.ok, compacted |-> r.compacted]
    /\ ctxCall' = "add"
    /\ UNCHANGED <<max_tokens, compaction_strategy>>
    /\ UNCHANGED nonCtxVars

CompactContext(required) ==
    /\ LET r == CompactContextResult(compaction_strategy, context_history,
                                     current_tokens, important_entries, required)
       IN /\ context_history' = r.hist
          /\ current_tokens' = r.cur
          /\ important_entries' = r.imp
          /\ ctxResult' = [ok |-> r.ok, compacted |-> TRUE]
    /\ ctxCall' = "compact"
    /\ UNCHANGED <<max_tokens, compaction_strategy>>
    /\ UNCHANGED nonCtxVars

ClearContext ==
    /\ context_history' = <<>>
    /\ current_tokens' = 0
    /\ important_entries' = {}
    /\ ctxCall' = "clear"
    /\ ctxResult' = [ok |-> TRUE, compacted |-> FALSE]
    /\ UNCHANGED <<max_tokens, compaction_strategy>>
    /\ UNCHANGED nonCtxVars

CtxNext ==
    \/ \E t \in Texts, n \in Lengths, role \in Roles, importance \in Importances :
          AddContext(Str(t, n), role, importance)
    \/ \E required \in RequiredChoices : CompactContext(required)
    \/ ClearContext

----------------------------------------------------------------------------
(* Optional values and dicts *)

\* None is the empty tuple, any other value v is <<v>>
None == <<>>
Some(v) == <<v>>

EmptyDict == [k \in {} |-> 0]

\* d[key] = value
DictSet(d, key, value) ==
    [k \in DOMAIN d \cup {key} |-> IF k = key THEN value ELSE d[k]]

\* "x or {}" for an optional dict x
OrEmptyDict(x) == IF x = None THEN EmptyDict ELSE x[1]

\* "if x:" for an optional dict x
Truthy(x) == x # None /\ DOMAIN x[1] # {}

InitialStates == {None, Some([x |-> 2])}
CheckpointData == {None, Some([note |-> "a"])}
Results == {None, Some(EmptyDict), Some([file |-> "written"])}

----------------------------------------------------------------------------
(* OperationStatus *)

StatusValue ==
    [PENDING |-> "pending", RUNNING |-> "running", PAUSED |-> "paused",
     COMPLETED |-> "completed", FAILED |-> "failed", CANCELLED |-> "cancelled"]

Statuses == DOMAIN StatusValue

\* OperationStatus(value): the member with that value
OperationStatus(value) == CHOOSE m \in Statuses : StatusValue[m] = value

----------------------------------------------------------------------------
(* LongRunningOperation: each method as the object it leaves and how it ends *)

\* LongRunningOperation.__init__
NewOperation(operation_id, operation_type, initial_state) ==
    [operation_id |-> operation_id,
     operation_type |-> operation_type,
     status |-> "PENDING",
     checkpoints |-> <<>>,
     state |-> OrEmptyDict(initial_state),
     error_message |-> None]

StartOp(op) == [op |-> [op EXCEPT !.status = "RUNNING"], result |-> "ok"]

\* variant: the status changes but no checkpoint is recorded
PauseOpNoCheckpoint(op, checkpoint_data) ==
    IF op.status # "RUNNING"
    THEN [op |-> op, result |-> "invalid_transition"]
    ELSE [op |-> [op EXCEPT !.status = "PAUSED"], result |-> "ok"]

\* variant: the status check is missing
PauseOpUnguarded(op, checkpoint_data) ==
    LET checkpoint == [checkpoint_id |-> Len(op.checkpoints),
                       state |-> op.state,
                       data |-> OrEmptyDict(checkpoint_data)]
    IN [op |-> [op EXCEPT !.checkpoints = Append(@, checkpoint),
                          !.status = "PAUSED"],
        result |-> "ok"]

\* variant: checkpoints are numbered from 1, as the log message counts them
PauseOpOneBased(op, checkpoint_data) ==
    IF op.status # "RUNNING"
    THEN [op |-> op, result |-> "invalid_transition"]
    ELSE LET checkpoint == [checkpoint_id |-> Len(op.checkpoints) + 1,
                            state |-> op.state,
                            data |-> OrEmptyDict(checkpoint_data)]
         IN [op |-> [op EXCEPT !.checkpoints = Append(@, checkpoint),
                               !.status = "PAUSED"],
             result |-> "ok"]

PauseOp(op, checkpoint_data) ==
    IF op.status # "RUNNING"
    THEN [op |-> op, result |-> "invalid_transition"]
    ELSE LET checkpoint == [checkpoint_id |-> Len(op.checkpoints),
                            state |-> op.state,
                            data |-> OrEmptyDict(checkpoint_data)]
         IN [op |-> [op EXCEPT !.checkpoints = Append(@, checkpoint),
                               !.status = "PAUSED"],
             result |-> "ok"]

\* variant: the checkpoint resumed from is taken off the list
ResumeOpPopsCheckpoint(op) ==
    IF op.status # "PAUSED"
    THEN [op |-> op, result |-> "invalid_transition"]
    ELSE IF op.checkpoints = <<>>
    THEN [op |-> op, result |-> "no_checkpoint"]
    ELSE LET last_checkpoint == op.checkpoints[Len(op.checkpoints)]
         IN [op |-> [op EXCEPT !.state = last_checkpoint.state,
                               !.status = "RUNNING",
                               !.checkpoints = SubSeq(@, 1, Len(@) - 1)],
             result |-> "ok"]

\* variant: the checkpoints are looked at before the status
ResumeOpChecksCheckpointsFirst(op) ==
    IF op.checkpoints = <<>>
    THEN [op |-> op, result |-> "no_checkpoint"]
    ELSE IF op.status # "PAUSED"
    THEN [op |-> op, result |-> "invalid_transition"]
    ELSE LET last_checkpoint == op.checkpoints[Len(op.checkpoints)]
         IN [op |-> [op EXCEPT !.state = last_checkpoint.state,
                               !.status = "RUNNING"],
             result |-> "ok"]

\* variant: the live state is kept instead of the checkpointed one
ResumeOpKeepsState(op) ==
    IF op.status # "PAUSED"
    THEN [op |-> op, result |-> "invalid_transition"]
    ELSE IF op.checkpoints = <<>>
    THEN [op |-> op, result |-> "no_checkpoint"]
    ELSE [op |-> [op EXCEPT !.status = "RUNNING"], result |-> "ok"]

ResumeOp(op) ==
    IF op.status # "PAUSED"
    THEN [op |-> op, result |-> "invalid_transition"]
    ELSE IF op.checkpoints = <<>>
    THEN [op |-> op, result |-> "no_checkpoint"]
    ELSE LET last_checkpoint == op.checkpoints[Len(op.checkpoints)]
         IN [op |-> [op EXCEPT !.state = last_checkpoint.state,
                               !.status = "RUNNING"],
             result |-> "ok"]

CompleteOp(op, result) ==
    [op |-> [op EXCEPT !.status = "COMPLETED",
                       !.state = IF Truthy(result)
                                 THEN DictSet(@, "result", result[1]) ELSE @],
     result |-> "ok"]

FailOp(op, error_message) ==
    [op |-> [op EXCEPT !.status = "FAILED", !.error_message = Some(error_message)],
     result |-> "ok"]

CancelOp(op) == [op |-> [op EXCEPT !.status = "CANCELLED"], result |-> "ok"]

\* variant: the checkpoints hold the live state dict itself, not a copy
UpdateStateOpSharedSnapshot(op, key, value) ==
    [op |-> [op EXCEPT !.state = DictSet(@, key, value),
                       !.checkpoints =
                          [k \in 1..Len(@) |->
                              [@[k] EXCEPT !.state = DictSet(@, key, value)]]],
     result |-> "ok"]

UpdateStateOp(op, key, value) ==
    [op |-> [op EXCEPT !.state = DictSet(@, key, value)], result |-> "ok"]

ToDict(op) ==
    [operation_id |-> op.operation_id,
     operation_type |-> op.operation_type,
     status |-> StatusValue[op.status],
     checkpoints |-> op.checkpoints,
     state |-> op.state,
     error_message |-> op.error_message]

\* d.get(key, default)
GetOr(d, key, default) == IF key \in DOMAIN d THEN d[key] ELSE default

\* variant: error_message is not restored
FromDictDropsError(data) ==
    LET op == NewOperation(data.operation_id, data.operation_type,
                           Some(GetOr(data, "state", EmptyDict)))
    IN [op EXCEPT !.status = OperationStatus(data.status),
                  !.checkpoints = GetOr(data, "checkpoints", <<>>)]

FromDict(data) ==
    LET op == NewOperation(data.operation_id, data.operation_type,
                           Some(GetOr(data, "state", EmptyDict)))
    IN [op EXCEPT !.status = OperationStatus(data.status),
                  !.checkpoints = GetOr(data, "checkpoints", <<>>),
                  !.error_message = GetOr(data, "error_message", None)]

\* from_dict does not raise: the keys it indexes are there and the status is
\* the value of a member of OperationStatus
Reconstructible(data) ==
    /\ {"operation_id", "operation_type", "status"} \subseteq DOMAIN data
    /\ \E m \in Statuses : StatusValue[m] = data.status

----------------------------------------------------------------------------
(* LongRunningOperationManager *)

Registered(ops, id) == \E k \in 1..Len(ops) : ops[k].operation_id = id

IndexOf(ops, id) == CHOOSE k \in 1..Len(ops) : ops[k].operation_id = id

\* operations.get(operation_id), for a registered id
GetOperation(ops, id) == ops[IndexOf(ops, id)]

\* operations[operation_id] = op
PutOperation(ops, op) ==
    IF Registered(ops, op.operation_id)
    THEN [ops EXCEPT ![IndexOf(ops, op.operation_id)] = op]
    ELSE Append(ops, op)

\* variant: the new records are added to the ones already in the file
SaveOperationsKeepsOld(ops, file, outcome) ==
    IF outcome = "written"
    THEN [kind |-> "document",
          operations |-> file.operations \o [k \in 1..Len(ops) |-> ToDict(ops[k])]]
    ELSE IF outcome = "open_failed" THEN file
    ELSE [kind |-> "corrupt", operations |-> <<>>]

\* _save_operations: the file after the call; a failure is swallowed
SaveOperations(ops, file, outcome) ==
    IF outcome = "written"
    THEN [kind |-> "document", operations |-> [k \in 1..Len(ops) |-> ToDict(ops[k])]]
    ELSE IF outcome = "open_failed" THEN file
    ELSE [kind |-> "corrupt", operations |-> <<>>]

CreateOperationResult(ops, operation_id, operation_type, initial_state) ==
    PutOperation(ops, NewOperation(operation_id, operation_type, initial_state))

OpCallRec(op, id) == [op |-> op, id |-> id]

\* the module-level singleton with no storage file yet
OpInit ==
    /\ operations = <<>>
    /\ storage = [kind |-> "missing", operations |-> <<>>]
    /\ opCall = OpCallRec("init", "")
    /\ opResult = "ok"

CreateOperation(id, type, initial_state, outcome) ==
    /\ pipePc = "idle"
    /\ operations' = CreateOperationResult(operations, id, type, initial_state)
    /\ storage' = SaveOperations(operations', storage, outcome)
    /\ opCall' = OpCallRec("create", id)
    /\ opResult' = "ok"
    /\ UNCHANGED nonOpVars

\* a method called on the object that get_operation(id) returned
CallMethod(name, id, r) ==
    /\ pipePc = "idle"
    /\ operations' = PutOperation(operations, r.op)
    /\ opCall' = OpCallRec(name, id)
    /\ opResult' = r.result
    /\ UNCHANGED storage
    /\ UNCHANGED nonOpVars

Start(id) ==
    /\ Registered(operations, id)
    /\ CallMethod("start", id, StartOp(GetOperation(operations, id)))

Pause(id, checkpoint_data) ==
    /\ Registered(operations, id)
    /\ Len(GetOperation(operations, id).checkpoints) < MaxCheckpoints
    /\ CallMethod("pause", id, PauseOp(GetOperation(operations, id), checkpoint_data))

Resume(id) ==
    /\ Registered(operations, id)
    /\ CallMethod("resume", id, ResumeOp(GetOperation(operations, id)))

Complete(id, result) ==
    /\ Registered(operations, id)
    /\ CallMethod("complete", id, CompleteOp(GetOperation(operations, id), result))

Fail(id, error_message) ==
    /\ Registered(operations, id)
    /\ CallMethod("fail", id, FailOp(GetOperation(operations, id), error_message))

Cancel(id) ==
    /\ Registered(operations, id)
    /\ CallMethod("cancel", id, CancelOp(GetOperation(operations, id)))

UpdateState(id, key, value) ==
    /\ Registered(operations, id)
    /\ CallMethod("update_state", id,
                  UpdateStateOp(GetOperation(operations, id), key, value))

\* _load_operations: the registry a new manager builds from the storage file;
\* k is the position in the document handled next
\* variant: the operations read before the failure are kept
RECURSIVE LoadRecordsKeepsRead(_, _, _)
LoadRecordsKeepsRead(records, k, ops) ==
    IF k > Len(records) THEN ops
    ELSE IF ~Reconstructible(records[k]) THEN ops
    ELSE LoadRecordsKeepsRead(records, k + 1,
                              PutOperation(ops, FromDict(records[k])))

\* a record from_dict raises on ends the load: "self.operations = {}"
RECURSIVE LoadRecords(_, _, _)
LoadRecords(records, k, ops) ==
    IF k > Len(records) THEN ops
    ELSE IF ~Reconstructible(records[k]) THEN <<>>
    ELSE LoadRecords(records, k + 1, PutOperation(ops, FromDict(records[k])))

LoadOperations(file) ==
    IF file.kind = "document" THEN LoadRecords(file.operations, 1, <<>>)
    ELSE <<>>

\* pause_operation of the manager, for a registered id: op.pause() and, unless
\* it raised, _save_operations()
PauseOperation(id, checkpoint_data, outcome) ==
    /\ Registered(operations, id)
    /\ Len(GetOperation(operations, id).checkpoints) < MaxCheckpoints
    /\ LET r == PauseOp(GetOperation(operations, id), checkpoint_data)
       IN /\ operations' = PutOperation(operations, r.op)
          /\ opResult' = r.result
          /\ storage' = IF r.result = "ok"
                        THEN SaveOperations(operations', storage, outcome)
                        ELSE storage
    /\ opCall' = OpCallRec("pause_operation", id)
    /\ UNCHANGED nonOpVars

\* resume_operation of the manager, for a registered id
ResumeOperation(id, outcome) ==
    /\ Registered(operations, id)
    /\ LET r == ResumeOp(GetOperation(operations, id))
       IN /\ operations' = PutOperation(operations, r.op)
          /\ opResult' = r.result
          /\ storage' = IF r.result = "ok"
                        THEN SaveOperations(operations', storage, outcome)
                        ELSE storage
    /\ opCall' = OpCallRec("resume_operation", id)
    /\ UNCHANGED nonOpVars

\* pause_operation / resume_operation with an id that is not registered
UnknownOperation(name, id) ==
    /\ ~Registered(operations, id)
    /\ opCall' = OpCallRec(name, id)
    /\ opResult' = "absent"
    /\ UNCHANGED <<operations, storage>>
    /\ UNCHANGED nonOpVars

\* the process ends and a new one constructs the manager from the storage file
Restart ==
    /\ operations' = LoadOperations(storage)
    /\ opCall' = OpCallRec("restart", "")
    /\ opResult' = "ok"
    /\ UNCHANGED storage
    /\ UNCHANGED nonOpVars

\* serialized operations of a storage file the manager did not write: one
\* with only the keys from_dict requires, a complete one, one without
\* "operation_type" and one whose status no member of OperationStatus has
StoredRecords ==
    {[operation_id |-> "op1", operation_type |-> "portfolio_update",
      status |-> "paused"],
     [operation_id |-> "op2", operation_type |-> "portfolio_update",
      status |-> "running", checkpoints |-> <<>>, state |-> [x |-> 1],
      error_message |-> None],
     [operation_id |-> "op2", status |-> "pending"],
     [operation_id |-> "op1", operation_type |-> "portfolio_update",
      status |-> "unknown"]}

RECURSIVE RecordLists(_)
RecordLists(n) ==
    IF n = 0 THEN {<<>>}
    ELSE RecordLists(n - 1) \cup
         {Append(list, r) : list \in {l \in RecordLists(n - 1) : Len(l) = n - 1},
                            r \in StoredRecords}

\* what _load_operations can find at storage_path: no file, a file json.load
\* raises on, or a document with a list of serialized operations
StoredFiles ==
    {[kind |-> "missing", operations |-> <<>>],
     [kind |-> "corrupt", operations |-> <<>>]} \cup
    {[kind |-> "document", operations |-> list] : list \in RecordLists(MaxRecords)}

\* the storage file is replaced from outside the process
ReplaceStorage(file) ==
    /\ pipePc = "idle"
    /\ storage' = file
    /\ opCall' = OpCallRec("replace_storage", "")
    /\ opResult' = "ok"
    /\ UNCHANGED operations
    /\ UNCHANGED nonOpVars

OpNext ==
    \/ \E id \in OpIds, type \in OpTypes, initial_state \in InitialStates,
          outcome \in WriteOutcomes :
          CreateOperation(id, type, initial_state, outcome)
    \/ \E id \in OpIds : Start(id)
    \/ \E id \in OpIds, checkpoint_data \in CheckpointData : Pause(id, checkpoint_data)
    \/ \E id \in OpIds : Resume(id)
    \/ \E id \in OpIds, result \in Results : Complete(id, result)
    \/ \E id \in OpIds, error_message \in ErrorMessages : Fail(id, error_message)
    \/ \E id \in OpIds : Cancel(id)
    \/ \E id \in OpIds, key \in StateKeys, value \in StateValues :
          UpdateState(id, key, value)

----------------------------------------------------------------------------
(* A2AProtocol.  A message carries the serial number n of its creation in   *)
(* place of the millisecond stamp of its message_id.  A handler is one of   *)
(* three kinds: "quiet" returns, "raises" raises an Exception, "responds"   *)
(* answers a REQUEST with send_response to its sender, as the handlers of   *)
(* agent.py do.                                                             *)

Broadcast == "*"

RequeueLimit == 100

\* A2AMessage.__init__
NewMessage(n, from_agent, to_agent, message_type, correlation_id) ==
    [n |-> n, from_agent |-> from_agent, to_agent |-> to_agent,
     message_type |-> message_type, correlation_id |-> correlation_id]

\* the part of the protocol a send or a delivery works on
RelayState(queue, history, pending, log) ==
    [queue |-> queue, history |-> history, pending |-> pending, log |-> log]

\* variant: the new message goes to the head of the queue
SendMessageAtHead(st, from_agent, to_agent, message_type, correlation_id) ==
    LET message == NewMessage(Len(st.history) + 1, from_agent, to_agent,
                              message_type, correlation_id)
    IN RelayState(<<message>> \o st.queue,
                  Append(st.history, message),
                  IF message_type = "REQUEST"
                  THEN st.pending \cup {message.n} ELSE st.pending,
                  st.log)

\* send_message
SendMessage(st, from_agent, to_agent, message_type, correlation_id) ==
    LET message == NewMessage(Len(st.history) + 1, from_agent, to_agent,
                              message_type, correlation_id)
    IN RelayState(Append(st.queue, message),
                  Append(st.history, message),
                  IF message_type = "REQUEST"
                  THEN st.pending \cup {message.n} ELSE st.pending,
                  st.log)

IsRegistered(reg, name) == \E k \in 1..Len(reg) : reg[k].name = name

HandlerOf(reg, name) == reg[CHOOSE k \in 1..Len(reg) : reg[k].name = name]

\* handler(message) inside its try / except
Deliver(st, agent, message) ==
    LET logged == [st EXCEPT !.log = Append(@, [agent |-> agent.name,
                                                n |-> message.n,
                                                raised |-> agent.kind = "raises"])]
    IN IF agent.kind = "responds" /\ message.message_type = "REQUEST"
       THEN SendMessage(logged, agent.name, message.from_agent, "RESPONSE",
                        Some(message.n))
       ELSE logged

\* variant: the try / except encloses the whole loop, so the first handler
\* that raises ends the broadcast
RECURSIVE BroadcastLoopStopsAtRaise(_, _, _, _)
BroadcastLoopStopsAtRaise(st, reg, message, k) ==
    IF k > Len(reg) THEN st
    ELSE IF reg[k].name # message.from_agent
         THEN IF reg[k].kind = "raises"
              THEN Deliver(st, reg[k], message)
              ELSE BroadcastLoopStopsAtRaise(Deliver(st, reg[k], message),
                                             reg, message, k + 1)
         ELSE BroadcastLoopStopsAtRaise(st, reg, message, k + 1)

\* "for agent_name, handler in self.agents.items()": k is the position next
RECURSIVE BroadcastLoop(_, _, _, _)
BroadcastLoop(st, reg, message, k) ==
    IF k > Len(reg) THEN st
    ELSE IF reg[k].name # message.from_agent
         THEN BroadcastLoop(Deliver(st, reg[k], message), reg, message, k + 1)
         ELSE BroadcastLoop(st, reg, message, k + 1)

\* variant: the queue may hold RequeueLimit messages before the re-append
DispatchRequeuesAtLimit(st, reg, message) ==
    IF message.to_agent = Broadcast
    THEN BroadcastLoop(st, reg, message, 1)
    ELSE IF IsRegistered(reg, message.to_agent)
    THEN Deliver(st, HandlerOf(reg, message.to_agent), message)
    ELSE IF Len(st.queue) <= RequeueLimit
    THEN [st EXCEPT !.queue = Append(@, message)]
    ELSE st

\* variant: a message whose handler raised is queued again
DispatchRetriesRaised(st, reg, message) ==
    IF message.to_agent = Broadcast
    THEN BroadcastLoop(st, reg, message, 1)
    ELSE IF IsRegistered(reg, message.to_agent)
    THEN LET d == Deliver(st, HandlerOf(reg, message.to_agent), message)
         IN IF HandlerOf(reg, message.to_agent).kind = "raises"
            THEN [d EXCEPT !.queue = Append(@, message)]
            ELSE d
    ELSE IF Len(st.queue) < RequeueLimit
    THEN [st EXCEPT !.queue = Append(@, message)]
    ELSE st

\* the body of the while loop of process_messages after the pop
Dispatch(st, reg, message) ==
    IF message.to_agent = Broadcast
    THEN BroadcastLoop(st, reg, message, 1)
    ELSE IF IsRegistered(reg, message.to_agent)
    THEN Deliver(st, HandlerOf(reg, message.to_agent), message)
    ELSE IF Len(st.queue) < RequeueLimit
    THEN [st EXCEPT !.queue = Append(@, message)]
    ELSE st

\* A2AProtocol()
RelayInit ==
    /\ agents = <<>>
    /\ message_queue = <<>>
    /\ message_history = <<>>
    /\ pending_requests = {}
    /\ relayPc = "idle"
    /\ relayMessage = None
    /\ deliveries = <<>>
    /\ historyCall = [agent_name |-> None, limit |-> 0, result |-> <<>>]

RegisterAgent(name, kind) ==
    /\ relayPc = "idle"
    /\ agents' = IF IsRegistered(agents, name)
                 THEN [k \in 1..Len(agents) |->
                          IF agents[k].name = name
                          THEN [name |-> name, kind |-> kind] ELSE agents[k]]
                 ELSE Append(agents, [name |-> name, kind |-> kind])
    /\ UNCHANGED <<message_queue, message_history, pending_requests, relayPc,
                   relayMessage, deliveries>>
    /\ UNCHANGED historyCall
    /\ UNCHANGED nonRelayVars

UnregisterAgent(name) ==
    /\ relayPc = "idle"
    /\ agents' = SelectSeq(agents, LAMBDA a : a.name # name)
    /\ UNCHANGED <<message_queue, message_history, pending_requests, relayPc,
                   relayMessage, deliveries>>
    /\ UNCHANGED historyCall
    /\ UNCHANGED nonRelayVars

SetRelayState(st) ==
    /\ message_queue' = st.queue
    /\ message_history' = st.history
    /\ pending_requests' = st.pending
    /\ deliveries' = st.log

CurrentRelayState ==
    RelayState(message_queue, message_history, pending_requests, deliveries)

SendRequest(from_agent, to_agent) ==
    /\ relayPc = "idle"
    /\ Len(message_history) < MaxMessages
    /\ SetRelayState(SendMessage(CurrentRelayState, from_agent, to_agent,
                                 "REQUEST", None))
    /\ UNCHANGED <<agents, relayPc, relayMessage>>
    /\ UNCHANGED historyCall
    /\ UNCHANGED nonRelayVars

SendEvent(from_agent, to_agent) ==
    /\ relayPc = "idle"
    /\ Len(message_history) < MaxMessages
    /\ SetRelayState(SendMessage(CurrentRelayState, from_agent, to_agent,
                                 "EVENT", None))
    /\ UNCHANGED <<agents, relayPc, relayMessage>>
    /\ UNCHANGED historyCall
    /\ UNCHANGED nonRelayVars

\* process_messages is called
ProcessMessages ==
    /\ relayPc = "idle"
    /\ relayPc' = "processing"
    /\ UNCHANGED <<agents, message_queue, message_history, pending_requests,
                   relayMessage, deliveries>>
    /\ UNCHANGED historyCall
    /\ UNCHANGED nonRelayVars

\* "while self.message_queue:" finds a message and pops it
ProcessPop ==
    /\ relayPc = "processing"
    /\ message_queue # <<>>
    /\ relayMessage' = Some(Head(message_queue))
    /\ message_queue' = Tail(message_queue)
    /\ relayPc' = "dispatch"
    /\ UNCHANGED <<agents, message_history, pending_requests, deliveries>>
    /\ UNCHANGED historyCall
    /\ UNCHANGED nonRelayVars

\* the popped message is broadcast, delivered, re-queued or dropped
ProcessDispatch ==
    /\ relayPc = "dispatch"
    /\ SetRelayState(Dispatch(CurrentRelayState, agents, relayMessage[1]))
    /\ relayMessage' = None
    /\ relayPc' = "processing"
    /\ UNCHANGED agents
    /\ UNCHANGED historyCall
    /\ UNCHANGED nonRelayVars

\* "while self.message_queue:" finds the queue empty and the call returns
ProcessReturn ==
    /\ relayPc = "processing"
    /\ message_queue = <<>>
    /\ relayPc' = "idle"
    /\ UNCHANGED <<agents, message_queue, message_history, pending_requests,
                   relayMessage, deliveries>>
    /\ UNCHANGED historyCall
    /\ UNCHANGED nonRelayVars

\* list[-limit:] of Python: from position len - limit for a positive limit,
\* from position 0 for limit 0, and from position -limit for a negative one
LastSlice(list, limit) ==
    LET start == IF limit > 0
                 THEN (IF Len(list) > limit THEN Len(list) - limit ELSE 0)
                 ELSE (IF 0 - limit < Len(list) THEN 0 - limit ELSE Len(list))
    IN SubSeq(list, start + 1, Len(list))

\* the messages that have agent_name as sender or recipient
FilteredHistory(history, agent_name) ==
    SelectSeq(history, LAMBDA msg : msg.from_agent = agent_name
                                    \/ msg.to_agent = agent_name)

\* get_message_history: the list it returns
MessageHistory(history, agent_name, limit) ==
    IF agent_name # None /\ agent_name[1] # ""
    THEN LastSlice(FilteredHistory(history, agent_name[1]), limit)
    ELSE LastSlice(history, limit)

GetMessageHistory(agent_name, limit) ==
    /\ relayPc = "idle"
    /\ historyCall' = [agent_name |-> agent_name, limit |-> limit,
                       result |-> MessageHistory(message_history, agent_name, limit)]
    /\ UNCHANGED <<agents, message_queue, message_history, pending_requests,
                   relayPc, relayMessage, deliveries>>
    /\ UNCHANGED nonRelayVars

RelayNext ==
    \/ \E name \in AgentNames, kind \in HandlerKinds : RegisterAgent(name, kind)
    \/ \E name \in AgentNames : UnregisterAgent(name)
    \/ \E from_agent \in Senders, to_agent \in RequestTargets :
          SendRequest(from_agent, to_agent)
    \/ \E from_agent \in Senders, to_agent \in EventTargets :
          SendEvent(from_agent, to_agent)
    \/ ProcessMessages
    \/ ProcessPop
    \/ ProcessDispatch
    \/ ProcessReturn

----------------------------------------------------------------------------
(* portfolio_update, content_generator and the PersistentMemoryBank *)

\* d.get(key) for a dict d
DictGet(d, key) == IF key \in DOMAIN d THEN Some(d[key]) ELSE None

\* the dict github_analyzer returns
GithubAnalyzer(username, outcome) ==
    IF outcome = "profile"
    THEN [login |-> username]
    ELSE [error |-> "not found or API error"]

\* the order in which content_generator tries the models
ModelNames ==
    <<"gemini-2.0-flash", "gemini-2.0-flash-exp", "gemini-1.5-flash",
      "gemini-1.5-pro">>

PromptText == Str("prompt", 300)

GeneratedText(length) == Str("post", length)

\* variant: every failure moves on to the next model
AfterFailureAlwaysContinues(outcome) == "continue"

\* "if 'not found' in error_msg.lower() or '404' in error_msg: continue"
AfterFailure(outcome) == IF outcome = "not_found" THEN "continue" ELSE "break"

\* the dict portfolio_writer returns
WriterResult(outcome) ==
    IF outcome = "success"
    THEN [status |-> "success", file |-> "portfolio_entry.md"]
    ELSE [status |-> "error", reason |-> "io"]

\* variant: the write result is not looked at
ShouldSaveAnyWrite(file_result, content) == StrLen(content) > 0

\* "if write_success and content:"
ShouldSave(file_result, content) ==
    file_result.status = "success" /\ StrLen(content) > 0

\* the entry memory_bank.save builds
MemoryEntry(username, post, meta) ==
    [username |-> username, post |-> post, meta |-> meta]

\* _persist: the file after the call; a failure is swallowed
Persist(list, file, outcome) ==
    IF outcome = "written" THEN [kind |-> "document", entries |-> list] ELSE file

\* variant: the restored state is not consulted
RestoredSummaryIgnored(state) == None

\* summary = state.get("github_summary"), for the state op.resume() returned
RestoredSummary(state) == DictGet(state, "github_summary")

\* variant: a stage result that carries an error fails the operation
CheckpointFailsOnError(ops, operation_id, key, value, step) ==
    IF operation_id = None
    THEN [ops |-> ops, called |-> FALSE, result |-> "ok"]
    ELSE LET op == GetOperation(ops, operation_id[1])
             updated == UpdateStateOp(op, key, value).op
             r == IF "error" \in DOMAIN value
                  THEN FailOp(updated, value.error)
                  ELSE PauseOp(updated, Some([step |-> step]))
         IN [ops |-> PutOperation(ops, IF r.result = "ok" THEN r.op ELSE updated),
             called |-> TRUE, result |-> r.result]

\* "if op: op.update_state(key, value); op.pause({'step': step})"
Checkpoint(ops, operation_id, key, value, step) ==
    IF operation_id = None
    THEN [ops |-> ops, called |-> FALSE, result |-> "ok"]
    ELSE LET op == GetOperation(ops, operation_id[1])
             updated == UpdateStateOp(op, key, value).op
             r == PauseOp(updated, Some([step |-> step]))
         IN [ops |-> PutOperation(ops, IF r.result = "ok" THEN r.op ELSE updated),
             called |-> TRUE, result |-> r.result]

\* the locals at the start of a call
PipeLocals(username, operation_id, resume, ops) ==
    LET known == operation_id # None /\ Registered(ops, operation_id[1])
        op == GetOperation(ops, operation_id[1])
        paused == known /\ op.status = "PAUSED"
    IN [username |-> username,
        operation_id |-> operation_id,
        resume |-> resume,
        registered |-> known,
        paused |-> paused,
        checkpointed |-> IF paused /\ op.checkpoints # <<>>
                         THEN DictGet(op.checkpoints[Len(op.checkpoints)].state,
                                      "github_summary")
                         ELSE None,
        summary |-> None,
        post |-> None,
        file_result |-> None,
        model |-> 1,
        calls |-> <<>>,
        attempts |-> <<>>,
        outcomes |-> <<>>,
        result |-> None]

PipeIdle == PipeLocals("", None, FALSE, <<>>)

\* the call ends: with a returned dict or with a raised error
Returned(p, dict) == [p EXCEPT !.result = Some([kind |-> "returned", value |-> dict])]

Raised(p, error) == [p EXCEPT !.result = Some([kind |-> "raised", value |-> error])]

ErrorDict(message) == [error |-> message]

PipeInit ==
    /\ entries = <<>>
    /\ memory_file = [kind |-> "missing", entries |-> <<>>]
    /\ portfolio_file = None
    /\ pipePc = "idle"
    /\ pipe = PipeIdle
    /\ pipeRuns = 0

\* portfolio_update is called: the operation is resumed, or created and started
PortfolioUpdateCall(username, operation_id, resume, outcome) ==
    /\ pipePc = "idle"
    /\ pipeRuns < MaxRuns
    /\ pipeRuns' = pipeRuns + 1
    /\ LET locals == PipeLocals(username, operation_id, resume, operations)
       IN IF operation_id = None
          THEN /\ pipe' = locals
               /\ pipePc' = "fetch"
               /\ UNCHANGED opVars
          ELSE IF resume /\ locals.paused
          THEN LET r == ResumeOp(GetOperation(operations, operation_id[1]))
               IN /\ operations' = PutOperation(operations, r.op)
                  /\ opCall' = OpCallRec("resume", operation_id[1])
                  /\ opResult' = r.result
                  /\ UNCHANGED storage
                  /\ IF r.result = "ok"
                     THEN /\ pipe' = [locals EXCEPT !.summary =
                                         RestoredSummary(r.op.state)]
                          /\ pipePc' = "fetch"
                     ELSE /\ pipe' = Raised(locals, r.result)
                          /\ pipePc' = "idle"
          ELSE LET created ==
                       IF locals.registered THEN operations
                       ELSE CreateOperationResult(operations, operation_id[1],
                                "portfolio_update", Some([username |-> username]))
                   r == StartOp(GetOperation(created, operation_id[1]))
               IN /\ operations' = PutOperation(created, r.op)
                  /\ storage' = IF locals.registered THEN storage
                                ELSE SaveOperations(created, storage, outcome)
                  /\ opCall' = OpCallRec("start", operation_id[1])
                  /\ opResult' = r.result
                  /\ pipe' = locals
                  /\ pipePc' = "fetch"
    /\ UNCHANGED <<entries, memory_file, portfolio_file>>
    /\ UNCHANGED <<ctxVars, relayVars, sessionVars>>

\* step 1: github_analyzer unless a summary was restored, then the checkpoint
FetchStage(outcome) ==
    /\ pipePc = "fetch"
    /\ IF Truthy(pipe.summary)
       THEN /\ IF "error" \in DOMAIN pipe.summary[1]
               THEN /\ pipe' = Returned(pipe, ErrorDict("GitHub analysis failed"))
                    /\ pipePc' = "idle"
               ELSE /\ pipe' = pipe
                    /\ pipePc' = "generate"
            /\ UNCHANGED opVars
       ELSE LET summary == GithubAnalyzer(pipe.username, outcome)
                c == Checkpoint(operations, pipe.operation_id, "github_summary",
                                summary, "github_analysis_complete")
                fetched == [pipe EXCEPT !.summary = Some(summary),
                                        !.calls = Append(@, "fetch")]
            IN /\ operations' = c.ops
               /\ IF c.called
                  THEN /\ opCall' = OpCallRec("pause", pipe.operation_id[1])
                       /\ opResult' = c.result
                  ELSE UNCHANGED <<opCall, opResult>>
               /\ UNCHANGED storage
               /\ IF c.result # "ok"
                  THEN /\ pipe' = Raised(fetched, c.result)
                       /\ pipePc' = "idle"
                  ELSE IF "error" \in DOMAIN summary
                  THEN /\ pipe' = Returned(fetched,
                                           ErrorDict("GitHub analysis failed"))
                       /\ pipePc' = "idle"
                  ELSE /\ pipe' = fetched
                       /\ pipePc' = "generate"
    /\ UNCHANGED <<entries, memory_file, portfolio_file, pipeRuns>>
    /\ UNCHANGED <<ctxVars, relayVars, sessionVars>>

\* context_manager.add_context(content, role, importance) on the singleton
ContextAdded(content, role, importance) ==
    /\ LET r == AddContextResult(compaction_strategy, max_tokens, context_history,
                                 current_tokens, important_entries,
                                 content, role, importance)
       IN /\ context_history' = r.hist
          /\ current_tokens' = r.cur
          /\ important_entries' = r.imp
          /\ ctxResult' = [ok |-> r.ok, compacted |-> r.compacted]
    /\ ctxCall' = "add"
    /\ UNCHANGED <<max_tokens, compaction_strategy>>

\* step 2, content_generator up to the model loop: the API key is read and
\* the prompt is added to the context
GenerateBegin(key) ==
    /\ pipePc = "generate"
    /\ IF key = "missing"
       THEN /\ pipe' = [pipe EXCEPT !.calls = Append(@, "generate"),
                                    !.post = Some(ErrorDict("API key not found"))]
            /\ pipePc' = "checkpoint"
            /\ UNCHANGED ctxVars
       ELSE /\ pipe' = [pipe EXCEPT !.calls = Append(@, "generate"), !.model = 1]
            /\ pipePc' = "attempt"
            /\ ContextAdded(PromptText, "user", 9)
    /\ UNCHANGED <<entries, memory_file, portfolio_file, pipeRuns>>
    /\ UNCHANGED <<opVars, relayVars, sessionVars>>

\* one turn of "for model_name in model_names"
GenerateAttempt(outcome, length) ==
    /\ pipePc = "attempt"
    /\ LET tried == [pipe EXCEPT !.attempts = Append(@, ModelNames[pipe.model]),
                                 !.outcomes = Append(@, outcome)]
       IN IF outcome = "ok"
          THEN /\ pipe' = [tried EXCEPT !.post =
                              Some([content |-> GeneratedText(length)])]
               /\ pipePc' = "checkpoint"
               /\ ContextAdded(GeneratedText(length), "assistant", 8)
          ELSE IF AfterFailure(outcome) = "continue" /\ pipe.model < Len(ModelNames)
          THEN /\ pipe' = [tried EXCEPT !.model = @ + 1]
               /\ pipePc' = "attempt"
               /\ UNCHANGED ctxVars
          ELSE /\ pipe' = [tried EXCEPT !.post = Some(ErrorDict("Gemini API error"))]
               /\ pipePc' = "checkpoint"
               /\ UNCHANGED ctxVars
    /\ UNCHANGED <<entries, memory_file, portfolio_file, pipeRuns>>
    /\ UNCHANGED <<opVars, relayVars, sessionVars>>

\* the checkpoint after content_generator returned, then the tests on post
GenerateCheckpoint ==
    /\ pipePc = "checkpoint"
    /\ LET post == pipe.post[1]
           c == Checkpoint(operations, pipe.operation_id, "generated_post",
                           post, "content_generation_complete")
       IN /\ operations' = c.ops
          /\ IF c.called
             THEN /\ opCall' = OpCallRec("pause", pipe.operation_id[1])
                  /\ opResult' = c.result
             ELSE UNCHANGED <<opCall, opResult>>
          /\ UNCHANGED storage
          /\ IF c.result # "ok"
             THEN /\ pipe' = Raised(pipe, c.result)
                  /\ pipePc' = "idle"
             ELSE IF "error" \in DOMAIN post
             THEN /\ pipe' = Returned(pipe, ErrorDict("Content generation failed"))
                  /\ pipePc' = "idle"
             ELSE IF StrLen(post.content) = 0
             THEN /\ pipe' = Returned(pipe, ErrorDict("No content available"))
                  /\ pipePc' = "idle"
             ELSE /\ pipe' = pipe
                  /\ pipePc' = "write"
    /\ UNCHANGED <<entries, memory_file, portfolio_file, pipeRuns>>
    /\ UNCHANGED <<ctxVars, relayVars, sessionVars>>

\* step 3: portfolio_writer(content)
WriteStage(outcome) ==
    /\ pipePc = "write"
    /\ pipe' = [pipe EXCEPT !.calls = Append(@, "write"),
                            !.file_result = Some(WriterResult(outcome))]
    /\ portfolio_file' = IF outcome = "success"
                         THEN Some(pipe.post[1].content) ELSE portfolio_file
    /\ pipePc' = "record"
    /\ UNCHANGED <<entries, memory_file, pipeRuns>>
    /\ UNCHANGED <<ctxVars, opVars, relayVars, sessionVars>>

\* the dict returned on the last line
FullResult(p) ==
    [github_summary |-> p.summary[1],
     generated_post |-> p.post[1],
     file_result |-> p.file_result[1],
     operation_id |-> p.operation_id]

\* step 4 and the end: memory_bank.save, op.complete and the return
RecordStage(outcome) ==
    /\ pipePc = "record"
    /\ LET content == pipe.post[1].content
           file_result == pipe.file_result[1]
           save == ShouldSave(file_result, content)
           entry == MemoryEntry(pipe.username, content,
                                [github_summary |-> pipe.summary[1],
                                 file_result |-> file_result])
           done == IF save THEN [pipe EXCEPT !.calls = Append(@, "record")]
                   ELSE pipe
       IN /\ entries' = IF save THEN Append(entries, entry) ELSE entries
          /\ memory_file' = IF save THEN Persist(entries', memory_file, outcome)
                            ELSE memory_file
          /\ IF pipe.operation_id # None
             THEN LET id == pipe.operation_id[1]
                      r == CompleteOp(GetOperation(operations, id),
                              Some([github_summary |-> pipe.summary[1],
                                    generated_post |-> pipe.post[1],
                                    file_result |-> file_result]))
                  IN /\ operations' = PutOperation(operations, r.op)
                     /\ opCall' = OpCallRec("complete", id)
                     /\ opResult' = r.result
                     /\ UNCHANGED storage
             ELSE UNCHANGED opVars
          /\ pipe' = Returned(done, FullResult(done))
    /\ pipePc' = "idle"
    /\ UNCHANGED <<portfolio_file, pipeRuns>>
    /\ UNCHANGED <<ctxVars, relayVars, sessionVars>>

PipeNext ==
    \/ \E username \in Usernames, id \in OpIds, resume \in BOOLEAN,
          outcome \in WriteOutcomes :
          \/ PortfolioUpdateCall(username, None, resume, outcome)
          \/ PortfolioUpdateCall(username, Some(id), resume, outcome)
    \/ \E outcome \in FetchOutcomes : FetchStage(outcome)
    \/ \E key \in KeyStates : GenerateBegin(key)
    \/ \E outcome \in AttemptOutcomes, length \in ContentLengths :
          GenerateAttempt(outcome, length)
    \/ GenerateCheckpoint
    \/ \E outcome \in WriterOutcomes : WriteStage(outcome)
    \/ \E outcome \in PersistOutcomes : RecordStage(outcome)
    \/ \E id \in OpIds, type \in OpTypes : CreateOperation(id, type, None, "written")
    \/ \E id \in OpIds : Start(id)
    \/ \E id \in OpIds : Pause(id, None)

----------------------------------------------------------------------------
(* InMemorySessionService *)

DefaultTtlHours == 24

\* what a call returned
NoneResult == [kind |-> "none", flag |-> FALSE, number |-> 0, items |-> <<>>]

BoolResult(b) == [NoneResult EXCEPT !.kind = "bool", !.flag = b]

NumberResult(n) == [NoneResult EXCEPT !.kind = "number", !.number = n]

SessionResult(session) == [NoneResult EXCEPT !.kind = "session", !.items = <<session>>]

DictResult(d) == [NoneResult EXCEPT !.kind = "dict", !.items = <<d>>]

ListResult(list) == [NoneResult EXCEPT !.kind = "list", !.items = list]

SessionCallRec(name, session_id, result) ==
    [name |-> name, session_id |-> session_id, result |-> result]

\* the session create_session stores
NewSession(session_id, user_id, now) ==
    [session_id |-> session_id,
     user_id |-> user_id,
     created_at |-> now,
     last_accessed |-> now,
     state |-> EmptyDict,
     history |-> <<>>]

\* variant: the lifetime is counted from the last access
ExpiredSinceAccess(session, now, ttl) == now - session.last_accessed > ttl

\* "datetime.now() - session['created_at'] > self.default_ttl"
Expired(session, now, ttl) == now - session.created_at > ttl

\* del self.sessions[session_id]
WithoutSession(all, session_id) == [id \in DOMAIN all \ {session_id} |-> all[id]]

\* get_session: the sessions after the call and the session it returns
GetSessionResult(all, session_id, now, ttl) ==
    IF session_id \notin DOMAIN all
    THEN [sessions |-> all, session |-> None]
    ELSE IF Expired(all[session_id], now, ttl)
    THEN [sessions |-> WithoutSession(all, session_id), session |-> None]
    ELSE LET accessed == [all EXCEPT ![session_id].last_accessed = now]
         IN [sessions |-> accessed, session |-> Some(accessed[session_id])]

\* InMemorySessionService(default_ttl_hours)
SessionConstructed(default_ttl_hours) ==
    /\ sessions = EmptyDict
    /\ default_ttl = default_ttl_hours
    /\ session_count = 0
    /\ clock = 0
    /\ sessionCall = SessionCallRec("init", 0, NoneResult)

\* the module-level singleton: session_service = InMemorySessionService()
SessionInit == SessionConstructed(DefaultTtlHours)

\* an hour passes
Tick ==
    /\ clock < MaxTime
    /\ clock' = clock + 1
    /\ UNCHANGED <<sessions, default_ttl, session_count, sessionCall>>
    /\ UNCHANGED nonSessionVars

\* create_session: the uuid4 is the number of the session
CreateSession(user_id) ==
    /\ session_count < MaxSessions
    /\ session_count' = session_count + 1
    /\ sessions' = DictSet(sessions, session_count',
                           NewSession(session_count', user_id, clock))
    /\ sessionCall' = SessionCallRec("create_session", session_count',
                                     NumberResult(session_count'))
    /\ UNCHANGED <<default_ttl, clock>>
    /\ UNCHANGED nonSessionVars

GetSession(session_id) ==
    /\ LET r == GetSessionResult(sessions, session_id, clock, default_ttl)
       IN /\ sessions' = r.sessions
          /\ sessionCall' = SessionCallRec("get_session", session_id,
                               IF r.session = None THEN NoneResult
                               ELSE SessionResult(r.session[1]))
    /\ UNCHANGED <<default_ttl, session_count, clock>>
    /\ UNCHANGED nonSessionVars

UpdateSessionState(session_id, key, value) ==
    /\ LET r == GetSessionResult(sessions, session_id, clock, default_ttl)
       IN IF r.session = None
          THEN /\ sessions' = r.sessions
               /\ sessionCall' = SessionCallRec("update_session_state", session_id,
                                                BoolResult(FALSE))
          ELSE /\ sessions' = [r.sessions EXCEPT ![session_id].state =
                                  DictSet(@, key, value)]
               /\ sessionCall' = SessionCallRec("update_session_state", session_id,
                                                BoolResult(TRUE))
    /\ UNCHANGED <<default_ttl, session_count, clock>>
    /\ UNCHANGED nonSessionVars

GetSessionState(session_id, key) ==
    /\ LET r == GetSessionResult(sessions, session_id, clock, default_ttl)
       IN /\ sessions' = r.sessions
          /\ sessionCall' = SessionCallRec("get_session_state", session_id,
                IF r.session = None THEN NoneResult
                ELSE IF key = None THEN DictResult(r.session[1].state)
                ELSE IF key[1] \in DOMAIN r.session[1].state
                THEN NumberResult(r.session[1].state[key[1]])
                ELSE NoneResult)
    /\ UNCHANGED <<default_ttl, session_count, clock>>
    /\ UNCHANGED nonSessionVars

AddToHistory(session_id, entry) ==
    /\ session_id \in DOMAIN sessions =>
          Len(sessions[session_id].history) < MaxHistory
    /\ LET r == GetSessionResult(sessions, session_id, clock, default_ttl)
       IN IF r.session = None
          THEN /\ sessions' = r.sessions
               /\ sessionCall' = SessionCallRec("add_to_history", session_id,
                                                BoolResult(FALSE))
          ELSE /\ sessions' = [r.sessions EXCEPT ![session_id].history =
                                  Append(@, entry)]
               /\ sessionCall' = SessionCallRec("add_to_history", session_id,
                                                BoolResult(TRUE))
    /\ UNCHANGED <<default_ttl, session_count, clock>>
    /\ UNCHANGED nonSessionVars

GetHistory(session_id) ==
    /\ LET r == GetSessionResult(sessions, session_id, clock, default_ttl)
       IN /\ sessions' = r.sessions
          /\ sessionCall' = SessionCallRec("get_history", session_id,
                               IF r.session = None THEN NoneResult
                               ELSE ListResult(r.session[1].history))
    /\ UNCHANGED <<default_ttl, session_count, clock>>
    /\ UNCHANGED nonSessionVars

DeleteSession(session_id) ==
    /\ sessions' = IF session_id \in DOMAIN sessions
                   THEN WithoutSession(sessions, session_id) ELSE sessions
    /\ sessionCall' = SessionCallRec("delete_session", session_id,
                                     BoolResult(session_id \in DOMAIN sessions))
    /\ UNCHANGED <<default_ttl, session_count, clock>>
    /\ UNCHANGED nonSessionVars

CleanupExpiredSessions ==
    /\ LET expired == {sid \in DOMAIN sessions :
                          Expired(sessions[sid], clock, default_ttl)}
       IN /\ sessions' = [id \in DOMAIN sessions \ expired |-> sessions[id]]
          /\ sessionCall' = SessionCallRec("cleanup_expired_sessions", 0,
                                           NumberResult(Cardinality(expired)))
    /\ UNCHANGED <<default_ttl, session_count, clock>>
    /\ UNCHANGED nonSessionVars

SessionNext ==
    \/ Tick
    \/ \E user_id \in UserIds : CreateSession(user_id)
    \/ \E session_id \in SessionIds : GetSession(session_id)
    \/ \E session_id \in SessionIds, key \in StateKeys, value \in SessionValues :
          UpdateSessionState(session_id, key, value)
    \/ \E session_id \in SessionIds, key \in {None} \cup {Some(k) : k \in StateKeys} :
          GetSessionState(session_id, key)
    \/ \E session_id \in SessionIds, entry \in HistoryEntries :
          AddToHistory(session_id, entry)
    \/ \E session_id \in SessionIds : GetHistory(session_id)
    \/ \E session_id \in SessionIds : DeleteSession(session_id)
    \/ CleanupExpiredSessions

----------------------------------------------------------------------------
(* Specifications *)

CtxInit ==
    /\ \E maxTok \in MaxTokenChoices, strategy \in Strategies :
          CtxConstructed(maxTok, strategy)
    /\ OpInit
    /\ RelayInit
    /\ PipeInit
    /\ SessionInit

CtxSpec == CtxInit /\ [][CtxNext]_vars

\* buffers under the summarize strategy, one of them with room for a
\* summary next to an entry of more than 100 characters
SummarizeSpecInit ==
    /\ \E maxTok \in SummarizeMaxTokens : CtxConstructed(maxTok, "summarize")
    /\ OpInit
    /\ RelayInit
    /\ PipeInit
    /\ SessionInit

SummarizeSpec == SummarizeSpecInit /\ [][CtxNext]_vars

OpSpecInit == CtxDefault /\ OpInit /\ RelayInit /\ PipeInit /\ SessionInit

OpSpec == OpSpecInit /\ [][OpNext]_vars

\* the manager driven with plain arguments, its own pause / resume, the
\* pause and resume tools (Pause, Resume) and restarts
MgrNext ==
    \/ \E id \in OpIds, type \in OpTypes, outcome \in WriteOutcomes :
          CreateOperation(id, type, None, outcome)
    \/ \E id \in OpIds : Start(id)
    \/ \E id \in OpIds : Pause(id, None)
    \/ \E id \in OpIds : Resume(id)
    \/ \E id \in OpIds, outcome \in WriteOutcomes : PauseOperation(id, None, outcome)
    \/ \E id \in OpIds, outcome \in WriteOutcomes : ResumeOperation(id, outcome)
    \/ \E id \in OpIds, name \in {"pause_operation", "resume_operation"} :
          UnknownOperation(name, id)
    \/ \E id \in OpIds : Complete(id, None)
    \/ \E id \in OpIds, error_message \in ErrorMessages : Fail(id, error_message)
    \/ \E id \in OpIds : Cancel(id)
    \/ \E id \in OpIds, key \in StateKeys : UpdateState(id, key, 1)
    \/ Restart

MgrSpec == OpSpecInit /\ [][MgrNext]_vars

\* managers constructed over storage files of any content, and the methods
\* called on the operations they load
LoadNext ==
    \/ \E file \in StoredFiles : ReplaceStorage(file)
    \/ Restart
    \/ \E id \in OpIds, type \in OpTypes :
          CreateOperation(id, type, None, "written")
    \/ \E id \in OpIds : Start(id)
    \/ \E id \in OpIds : Pause(id, None)
    \/ \E id \in OpIds : Resume(id)

LoadSpecInit == CtxDefault /\ OpInit /\ RelayInit /\ PipeInit /\ SessionInit

LoadSpec == LoadSpecInit /\ [][LoadNext]_vars

\* sends and queries of the history, without processing
HistoryNext ==
    \/ \E from_agent \in Senders, to_agent \in RequestTargets :
          SendRequest(from_agent, to_agent)
    \/ \E from_agent \in Senders, to_agent \in EventTargets :
          SendEvent(from_agent, to_agent)
    \/ \E agent_name \in HistoryFilters, limit \in Limits :
          GetMessageHistory(agent_name, limit)

HistorySpecInit == CtxDefault /\ OpInit /\ RelayInit /\ PipeInit /\ SessionInit

HistorySpec == HistorySpecInit /\ [][HistoryNext]_vars

\* a session service of its own, with a short lifetime
SessionSpecInit ==
    /\ CtxDefault /\ OpInit /\ RelayInit /\ PipeInit
    /\ \E default_ttl_hours \in TtlHours : SessionConstructed(default_ttl_hours)

SessionSpec == SessionSpecInit /\ [][SessionNext]_vars

\* a fresh protocol after send_event(from_agent, first, ...) and then count
\* calls of send_event(from_agent, to_agent, ...): each call appended its
\* message to the queue and to the history
SentEvents(from_agent, first, to_agent, count) ==
    LET sent == [k \in 1..(count + 1) |->
                    NewMessage(k, from_agent, IF k = 1 THEN first ELSE to_agent,
                               "EVENT", None)]
    IN RelayState(sent, sent, {}, <<>>)

\* the protocol with agent "a" registered, after one event for the agent
\* "b" and then RequeueLimit - 1 or RequeueLimit events for "a" were sent
CapSpecInit ==
    /\ CtxDefault /\ OpInit /\ PipeInit /\ SessionInit
    /\ agents = <<[name |-> "a", kind |-> "quiet"]>>
    /\ \E count \in {RequeueLimit - 1, RequeueLimit} :
          LET st == SentEvents("user", "b", "a", count)
          IN /\ message_queue = st.queue
             /\ message_history = st.history
             /\ pending_requests = st.pending
             /\ deliveries = st.log
    /\ relayPc = "idle"
    /\ relayMessage = None
    /\ historyCall = [agent_name |-> None, limit |-> 0, result |-> <<>>]

\* registrations and process_messages on a queue at the re-queue limit
CapNext ==
    \/ \E name \in AgentNames, kind \in HandlerKinds : RegisterAgent(name, kind)
    \/ \E name \in AgentNames : UnregisterAgent(name)
    \/ ProcessMessages
    \/ ProcessPop
    \/ ProcessDispatch
    \/ ProcessReturn

CapSpec == CapSpecInit /\ [][CapNext]_vars

RelaySpecInit == CtxDefault /\ OpInit /\ RelayInit /\ PipeInit /\ SessionInit

RelaySpec == RelaySpecInit /\ [][RelayNext]_vars

\* process_messages runs to its end once called: no other code can run
RelayFairSpec ==
    RelaySpecInit /\ [][RelayNext]_vars
        /\ WF_vars(ProcessPop) /\ WF_vars(ProcessDispatch)
        /\ WF_vars(ProcessReturn)

\* portfolio_update calls, and operations created, started and paused
\* outside of it
PipeSpecInit == CtxDefault /\ OpInit /\ RelayInit /\ PipeInit /\ SessionInit

PipeSpec == PipeSpecInit /\ [][PipeNext]_vars

----------------------------------------------------------------------------
(* Properties of the ContextManager *)

RECURSIVE SumTokens(_)
SumTokens(hist) ==
    IF hist = <<>> THEN 0 ELSE hist[1].tokens + SumTokens(Tail(hist))

\* the entries that are protected from eviction, oldest first
RECURSIVE ProtectedEntries(_, _, _)
ProtectedEntries(hist, imp, i) ==
    IF i >= Len(hist) THEN <<>>
    ELSE IF hist[i + 1].importance >= 8 \/ i \in imp
         THEN <<hist[i + 1]>> \o ProtectedEntries(hist, imp, i + 1)
         ELSE ProtectedEntries(hist, imp, i + 1)

IsPrefix(s, t) == Len(s) <= Len(t) /\ SubSeq(t, 1, Len(s)) = s

\* C1: whenever add_context returns True, current_tokens <= max_tokens holds
\* immediately afterwards, under every strategy and after any earlier calls.
C1_SuccessfulAddWithinBudget ==
    (ctxCall = "add" /\ ctxResult.ok) => current_tokens <= max_tokens

\* C2: in every reachable state current_tokens is the sum of the entries'
\* token counts and each entry's token count is floor(len(content) / 4).
C2_TokenAccounting ==
    /\ current_tokens = SumTokens(context_history)
    /\ \A k \in 1..Len(context_history) :
          context_history[k].tokens = context_history[k].content.len \div 4

\* a summarize compaction has shrunk an entry and an add followed it
C2_Witness ==
    /\ compaction_strategy = "summarize"
    /\ ctxCall = "add" /\ ctxResult.ok /\ ctxResult.compacted
    /\ \E k \in 1..Len(context_history) : context_history[k].content.summarized

\* C3: under the importance strategy no add_context or compact_context call
\* removes or changes an entry with importance >= 8 or with its index in
\* important_entries: the protected entries before the call are, in order,
\* the first protected entries after it.
C3_ImportanceKeepsProtected ==
    [][(compaction_strategy = "importance" /\ ctxCall' \in {"add", "compact"})
        => IsPrefix(ProtectedEntries(context_history, important_entries, 0),
                    ProtectedEntries(context_history', important_entries', 0))]_vars

\* an importance compaction evicted an entry next to a protected one
C3_Witness ==
    /\ compaction_strategy = "importance"
    /\ ctxCall = "add" /\ ctxResult.ok /\ ctxResult.compacted
    /\ Len(context_history) = 2
    /\ 0 \in important_entries
    /\ context_history[1].importance >= 8

\* the state after adding entries of 10 and 10 tokens (importance 1) to a
\* fresh buffer with max_tokens = 40 under the importance strategy
C4_TwoTensAdded ==
    /\ max_tokens = 40
    /\ compaction_strategy = "importance"
    /\ Len(context_history) = 2
    /\ \A k \in 1..2 : /\ context_history[k].tokens = 10
                       /\ context_history[k].importance = 1
    /\ current_tokens = 20
    /\ important_entries = {}

C4_ThirdAdd ==
    \E t \in Texts, role \in Roles : AddContext(Str(t, 100), role, 1)

\* C4 as stated: the third add (25 tokens) compacts, evicts the two earlier
\* entries, succeeds, and leaves exactly the 25-token entry.
C4_AsStated ==
    [][(C4_TwoTensAdded /\ C4_ThirdAdd)
        => /\ ctxResult'.ok /\ ctxResult'.compacted
           /\ Len(context_history') = 1
           /\ context_history'[1].tokens = 25]_vars

\* C4 amended: the third add compacts and evicts the two earlier entries, but
\* they free only 20 < 25 tokens, so the add returns False and the buffer ends
\* empty with current_tokens = 0.
C4_ThirdAddFailsAndEmpties ==
    [][(C4_TwoTensAdded /\ C4_ThirdAdd)
        => /\ ~ctxResult'.ok /\ ctxResult'.compacted
           /\ context_history' = <<>>
           /\ current_tokens' = 0]_vars

\* a failed add under the importance strategy has emptied the 40-token buffer
C4_Witness ==
    /\ max_tokens = 40
    /\ compaction_strategy = "importance"
    /\ ctxCall = "add" /\ ~ctxResult.ok /\ ctxResult.compacted
    /\ context_history = <<>>
    /\ current_tokens = 0

----------------------------------------------------------------------------
(* Properties of LongRunningOperation and its manager *)

TerminalStatuses == {"COMPLETED", "FAILED", "CANCELLED"}

TransitionCalls == {"start", "pause", "resume", "complete", "fail", "cancel"}

\* the step is a call of method name on the registered operation id
Called(name, id) ==
    /\ Registered(operations, id)
    /\ opCall' = OpCallRec(name, id)

\* C5: once an operation is completed, failed or cancelled, no call of start,
\* pause, resume, complete, fail or cancel changes its status.
C5_TerminalStatusesStay ==
    [][\A id \in OpIds, name \in TransitionCalls :
          (Called(name, id)
           /\ GetOperation(operations, id).status \in TerminalStatuses)
          => GetOperation(operations', id).status
                = GetOperation(operations, id).status]_vars

\* C6: pause() outside RUNNING and resume() outside PAUSED raise the
\* invalid-transition error and leave status, state and checkpoints unchanged.
C6_InvalidTransitionRaises ==
    [][\A id \in OpIds :
          /\ (Called("pause", id)
              /\ GetOperation(operations, id).status # "RUNNING")
             => /\ opResult' = "invalid_transition"
                /\ GetOperation(operations', id) = GetOperation(operations, id)
          /\ (Called("resume", id)
              /\ GetOperation(operations, id).status # "PAUSED")
             => /\ opResult' = "invalid_transition"
                /\ GetOperation(operations', id) = GetOperation(operations, id)]_vars

\* pause() was refused on an operation that is already paused
C6_Witness ==
    \E id \in OpIds :
        /\ Registered(operations, id)
        /\ opCall = OpCallRec("pause", id)
        /\ opResult = "invalid_transition"
        /\ GetOperation(operations, id).status = "PAUSED"
        /\ GetOperation(operations, id).checkpoints # <<>>

\* C7: after a successful resume() the operation is RUNNING and its state is
\* the state snapshot of its last checkpoint, whatever the live state was.
C7_ResumeRestoresLastCheckpoint ==
    [][\A id \in OpIds :
          (Called("resume", id) /\ opResult' = "ok")
          => LET before == GetOperation(operations, id)
                 after == GetOperation(operations', id)
             IN /\ after.status = "RUNNING"
                /\ after.state = before.checkpoints[Len(before.checkpoints)].state
                /\ after.checkpoints = before.checkpoints]_vars

\* resume() restored x = 1 from the second of two differing checkpoints
C7_Witness ==
    \E id \in OpIds :
        /\ Registered(operations, id)
        /\ opCall = OpCallRec("resume", id)
        /\ opResult = "ok"
        /\ LET op == GetOperation(operations, id)
           IN /\ Len(op.checkpoints) = 2
              /\ op.checkpoints[1].state = [x |-> 2]
              /\ op.checkpoints[2].state = [x |-> 1]
              /\ op.state = [x |-> 1]
              /\ op.status = "RUNNING"

\* C8: the checkpoint at (0-based) position i has checkpoint_id = i.
C8_CheckpointIdsSequential ==
    \A k \in 1..Len(operations) :
        \A i \in 1..Len(operations[k].checkpoints) :
            operations[k].checkpoints[i].checkpoint_id = i - 1

\* an operation was paused twice and resumed
C8_Witness ==
    \E k \in 1..Len(operations) :
        /\ Len(operations[k].checkpoints) = 2
        /\ operations[k].status = "RUNNING"

\* C9: from_dict(to_dict(op)) has the status, checkpoints, state,
\* error_message, operation_id and operation_type of op.
C9_RoundTrip ==
    \A k \in 1..Len(operations) :
        LET op == operations[k]
            back == FromDict(ToDict(op))
        IN /\ back.status = op.status
           /\ back.checkpoints = op.checkpoints
           /\ back.state = op.state
           /\ back.error_message = op.error_message
           /\ back.operation_id = op.operation_id
           /\ back.operation_type = op.operation_type

\* a failed operation with a checkpoint, a result and an error message
C9_Witness ==
    \E k \in 1..Len(operations) :
        /\ operations[k].status = "FAILED"
        /\ operations[k].error_message # None
        /\ operations[k].checkpoints # <<>>
        /\ "result" \in DOMAIN operations[k].state

\* C10: create_operation with an id that is already registered fails and the
\* registered operation stays the one get_operation(id) returns.
C10_CreateExistingFails ==
    [][\A id \in OpIds :
          Called("create", id)
          => /\ opResult' # "ok"
             /\ GetOperation(operations', id) = GetOperation(operations, id)]_vars

\* the storage document holds one record per registered operation, in the
\* registry's order, and each record shows the operation as it is in memory
DocumentMatchesRegistry ==
    /\ storage.kind = "document"
    /\ Len(storage.operations) = Len(operations)
    /\ \A k \in 1..Len(operations) :
          /\ storage.operations[k].operation_id = operations[k].operation_id
          /\ storage.operations[k].status = StatusValue[operations[k].status]
          /\ storage.operations[k].state = operations[k].state
          /\ storage.operations[k].checkpoints = operations[k].checkpoints
    /\ \A k, m \in 1..Len(operations) :
          operations[k].operation_id = operations[m].operation_id => k = m

\* the step is a manager call that returned and whose write succeeded
SavingCallReturned ==
    \E id \in OpIds :
        \/ \E type \in OpTypes, initial_state \in InitialStates :
              CreateOperation(id, type, initial_state, "written")
        \/ \E checkpoint_data \in CheckpointData :
              PauseOperation(id, checkpoint_data, "written") /\ opResult' = "ok"
        \/ ResumeOperation(id, "written") /\ opResult' = "ok"

\* C11: right after a create_operation, pause_operation or resume_operation
\* that returned without a write error, the storage document has exactly one
\* record per registered operation and each equals the in-memory operation.
C11_SavedDocumentMatches ==
    [][SavingCallReturned => DocumentMatchesRegistry']_vars

\* resume_operation has just rewritten the document of a checkpointed operation
C11_Witness ==
    /\ opCall.op = "resume_operation"
    /\ opResult = "ok"
    /\ DocumentMatchesRegistry
    /\ Len(operations) = 1
    /\ operations[1].checkpoints # <<>>
    /\ storage.operations[1].status = "running"

\* C12: after a successful pause through the pause_operation tool (op.pause()
\* on the registered object), a manager constructed next from the storage file
\* holds the operation PAUSED with the checkpoint just taken.
C12_PausedSurvivesRestart ==
    [][\A id \in OpIds :
          (/\ opCall = OpCallRec("pause", id)
           /\ opResult = "ok"
           /\ Restart)
          => /\ Registered(operations', id)
             /\ GetOperation(operations', id).status = "PAUSED"
             /\ GetOperation(operations', id).checkpoints
                   = GetOperation(operations, id).checkpoints]_vars

----------------------------------------------------------------------------
(* Properties of the A2AProtocol *)

\* C13: process_messages always terminates, also when a queued message's
\* destination is not registered: every call that started returns.
C13_ProcessMessagesTerminates ==
    (relayPc = "processing") ~> (relayPc = "idle")

\* the invocations logged by the step
NewDeliveries == SubSeq(deliveries', Len(deliveries) + 1, Len(deliveries'))

\* the registered names other than the sender's, in registry order
BroadcastTargets(reg, message) ==
    SelectSeq(reg, LAMBDA a : a.name # message.from_agent)

\* C14: a message with to_agent "*" is passed exactly once to every handler
\* registered at that moment except the one under the sender's name, also when
\* some of them raise, and the messages queued after it stay to be processed.
C14_BroadcastReachesAll ==
    [][(relayPc = "dispatch" /\ relayMessage[1].to_agent = Broadcast)
        => LET message == relayMessage[1]
               targets == BroadcastTargets(agents, message)
           IN /\ Len(NewDeliveries) = Len(targets)
              /\ \A k \in 1..Len(targets) :
                    /\ NewDeliveries[k].agent = targets[k].name
                    /\ NewDeliveries[k].n = message.n
                    /\ NewDeliveries[k].raised = (targets[k].kind = "raises")
              /\ relayPc' = "processing"
              /\ IsPrefix(message_queue, message_queue')]_vars

\* a broadcast reached a handler registered after one that raised, and a
\* message queued behind it was delivered afterwards
C14_Witness ==
    /\ Len(deliveries) >= 3
    /\ message_history[deliveries[1].n].to_agent = Broadcast
    /\ deliveries[1].raised
    /\ deliveries[2].n = deliveries[1].n
    /\ deliveries[2].agent # deliveries[1].agent
    /\ deliveries[3].n # deliveries[1].n

----------------------------------------------------------------------------
(* Properties of portfolio_update *)

\* a call of portfolio_update has ended
RunEnded == pipePc = "idle" /\ pipe.result # None

ReturnedDict(dict) ==
    /\ pipe.result # None
    /\ pipe.result[1].kind = "returned"
    /\ pipe.result[1].value = dict

\* the call returned the dict of its last line
ReturnedFull ==
    /\ pipe.summary # None /\ pipe.post # None /\ pipe.file_result # None
    /\ ReturnedDict(FullResult(pipe))

StageOrder == <<"fetch", "generate", "write", "record">>

InCalls(stage) == \E k \in 1..Len(pipe.calls) : pipe.calls[k] = stage

FetchFailed == InCalls("fetch") /\ "error" \in DOMAIN pipe.summary[1]

GenerateFailed == pipe.post # None /\ "error" \in DOMAIN pipe.post[1]

GenerateSucceeded ==
    /\ pipe.post # None
    /\ "content" \in DOMAIN pipe.post[1]
    /\ StrLen(pipe.post[1].content) > 0

WriteFailed == pipe.file_result # None /\ pipe.file_result[1].status = "error"

WriteSucceeded == pipe.file_result # None /\ pipe.file_result[1].status = "success"

\* C15: in every call the stages run in the order fetch, generate, write,
\* record; after a fetch error nothing else is invoked and the GitHub-analysis
\* error is returned; after a generate error write and the memory save are not
\* invoked and the content-generation error is returned; after a failed write
\* the returned dict still carries the summary, the post and the write result.
C15_StagesInOrder ==
    /\ \/ IsPrefix(pipe.calls, StageOrder)
       \/ IsPrefix(pipe.calls, Tail(StageOrder))
    /\ RunEnded =>
          /\ FetchFailed =>
                /\ pipe.calls = <<"fetch">>
                /\ ReturnedDict(ErrorDict("GitHub analysis failed"))
          /\ GenerateFailed =>
                /\ ~InCalls("write")
                /\ ~InCalls("record")
                /\ ReturnedDict(ErrorDict("Content generation failed"))
          /\ WriteFailed => ReturnedFull

\* C16: a call with an operation id that was not registered and resume =
\* false, in which fetch, generate and write succeed, returns the full result
\* dict and leaves the operation in status COMPLETED.
C16_FreshOperationCompletes ==
    (/\ RunEnded
     /\ pipe.operation_id # None
     /\ ~pipe.registered
     /\ ~pipe.resume
     /\ InCalls("fetch") /\ ~FetchFailed
     /\ GenerateSucceeded
     /\ ~WriteFailed)
    => /\ ReturnedFull
       /\ GetOperation(operations, pipe.operation_id[1]).status = "COMPLETED"

\* C17 as stated: a call with resume = true on an operation in status PAUSED
\* never invokes the fetch stage.
C17_ResumeNeverFetches ==
    (pipe.resume /\ pipe.paused) => ~InCalls("fetch")

\* C17: a call with resume = true on an operation in status PAUSED whose last
\* checkpoint snapshot holds a non-empty github_summary does not invoke the
\* fetch stage, and the later stages use that github_summary.
C17_ResumeUsesCheckpointedSummary ==
    (pipe.resume /\ pipe.paused /\ Truthy(pipe.checkpointed))
    => /\ ~InCalls("fetch")
       /\ pipe.summary = pipe.checkpointed

\* a resumed call with a checkpointed summary went through to the write stage
C17_Witness ==
    /\ RunEnded
    /\ pipe.resume /\ pipe.paused /\ Truthy(pipe.checkpointed)
    /\ pipe.calls = <<"generate", "write", "record">>
    /\ ReturnedFull
    /\ pipe.result[1].value.github_summary = pipe.checkpointed[1]

\* C18: the step that ends a call appends exactly one record, with the
\* username, the generated text and the metadata, when fetch, generate and
\* write succeeded; no other step of any call changes memory_bank.entries.
C18_MemoryLog ==
    [][IF pipePc = "record" /\ ~FetchFailed /\ GenerateSucceeded /\ WriteSucceeded
       THEN /\ Len(entries') = Len(entries) + 1
            /\ IsPrefix(entries, entries')
            /\ entries'[Len(entries')] =
                  MemoryEntry(pipe.username, pipe.post[1].content,
                              [github_summary |-> pipe.summary[1],
                               file_result |-> pipe.file_result[1]])
       ELSE entries' = entries]_vars

\* one call saved a record and a later call with a failed write left the
\* log as it was
C18_Witness ==
    /\ RunEnded
    /\ WriteFailed
    /\ ~InCalls("record")
    /\ Len(entries) = 1
    /\ pipeRuns = 2

\* the position of a model in the list
ModelIndex(name) == CHOOSE k \in 1..Len(ModelNames) : ModelNames[k] = name

\* C19: the models are tried in list order, each at most once; a model is
\* tried after another one only if that one failed as not found; once the
\* generation stage has ended, its post is the content of the successful
\* attempt if the last attempt succeeded and an error otherwise.
C19_ModelFallback ==
    /\ Len(pipe.attempts) <= Len(ModelNames)
    /\ \A k \in 1..Len(pipe.attempts) : pipe.attempts[k] = ModelNames[k]
    /\ \A k \in 1..(Len(pipe.outcomes) - 1) : pipe.outcomes[k] = "not_found"
    /\ pipe.post # None =>
          IF pipe.outcomes # <<>> /\ pipe.outcomes[Len(pipe.outcomes)] = "ok"
          THEN "content" \in DOMAIN pipe.post[1]
          ELSE "error" \in DOMAIN pipe.post[1]
    /\ (pipePc = "attempt" /\ pipe.outcomes # <<>>) =>
          /\ pipe.outcomes[Len(pipe.outcomes)] = "not_found"
          /\ pipe.model = Len(pipe.attempts) + 1

\* the third model was the first to succeed, after two not-found failures
C19_Witness ==
    /\ pipePc = "checkpoint"
    /\ pipe.outcomes = <<"not_found", "not_found", "ok">>
    /\ pipe.attempts = SubSeq(ModelNames, 1, 3)
    /\ "content" \in DOMAIN pipe.post[1]

\* a model failed with an error of another class and the stage ended there
C19_StopsWitness ==
    /\ pipePc = "checkpoint"
    /\ pipe.outcomes = <<"not_found", "other">>
    /\ "error" \in DOMAIN pipe.post[1]

----------------------------------------------------------------------------
(* Adds that fit *)

\* C20: on a buffer whose current_tokens is the sum of its entries' estimates,
\* as it is when fresh, an add_context that keeps the total within max_tokens
\* returns True without compacting, appends its entry after the unchanged
\* earlier entries and keeps current_tokens equal to the sum; so a sequence
\* of such calls on a fresh buffer keeps every entry in insertion order.
C20_FittingAddsKeepEverything ==
    [][\A t \in Texts, n \in Lengths, role \in Roles, importance \in Importances :
          (/\ current_tokens = SumTokens(context_history)
           /\ current_tokens + EstimateTokens(Str(t, n)) <= max_tokens
           /\ AddContext(Str(t, n), role, importance))
          => /\ ctxResult' = [ok |-> TRUE, compacted |-> FALSE]
             /\ context_history' =
                   Append(context_history, NewEntry(Str(t, n), role, importance))
             /\ current_tokens' = SumTokens(context_history')]_vars

\* three adds filled the buffer exactly to max_tokens without compaction
C20_Witness ==
    /\ ctxCall = "add"
    /\ ctxResult = [ok |-> TRUE, compacted |-> FALSE]
    /\ Len(context_history) = 3
    /\ \A k \in 1..3 : context_history[k].tokens > 0
    /\ current_tokens = SumTokens(context_history)
    /\ current_tokens = max_tokens

----------------------------------------------------------------------------
(* The message history *)

\* the last limit elements of a list, all of it if it is shorter
MostRecent(list, limit) ==
    SubSeq(list, Len(list) - (IF limit < Len(list) THEN limit ELSE Len(list)) + 1,
           Len(list))

\* C21: get_message_history(name, limit) returns at most limit messages: the
\* most recent limit of the messages, in send order, that have name as sender
\* or recipient, for every limit >= 0, limit = 0 included.
C21_HistoryMostRecent ==
    [][\A agent_name \in HistoryFilters, limit \in Limits :
          (agent_name # None /\ GetMessageHistory(agent_name, limit))
          => /\ Len(historyCall'.result) <= limit
             /\ historyCall'.result =
                   MostRecent(FilteredHistory(message_history, agent_name[1]),
                              limit)]_vars

----------------------------------------------------------------------------
(* Properties of the InMemorySessionService *)

\* one of the calls that look the session up through get_session
SessionAccess(session_id) ==
    \/ GetSession(session_id)
    \/ \E key \in StateKeys, value \in SessionValues :
          UpdateSessionState(session_id, key, value)
    \/ \E entry \in HistoryEntries : AddToHistory(session_id, entry)
    \/ GetHistory(session_id)

\* the call returned None or False
Refused(call) ==
    \/ call.result.kind = "none"
    \/ call.result.kind = "bool" /\ ~call.result.flag

\* C22: a session is served only while clock - created_at <= default_ttl; the
\* first access after that deletes it and returns None / False; a deleted
\* session never comes back, so every later access returns None / False; and
\* no call changes created_at, so accesses do not extend the lifetime.
C22_SessionsExpire ==
    [][\A session_id \in SessionIds :
          /\ SessionAccess(session_id) =>
                IF /\ session_id \in DOMAIN sessions
                   /\ clock - sessions[session_id].created_at <= default_ttl
                THEN /\ ~Refused(sessionCall')
                     /\ session_id \in DOMAIN sessions'
                     /\ sessions'[session_id].last_accessed = clock
                ELSE /\ Refused(sessionCall')
                     /\ session_id \notin DOMAIN sessions'
          /\ (session_id <= session_count /\ session_id \notin DOMAIN sessions)
                => session_id \notin DOMAIN sessions'
          /\ (session_id \in DOMAIN sessions /\ session_id \in DOMAIN sessions')
                => sessions'[session_id].created_at =
                      sessions[session_id].created_at]_vars

\* session 1 was deleted and an update of it was refused, while session 2,
\* created later and read since, is still there
C22_Witness ==
    /\ sessionCall = SessionCallRec("update_session_state", 1, BoolResult(FALSE))
    /\ session_count = 2
    /\ DOMAIN sessions = {2}
    /\ sessions[2].last_accessed > sessions[2].created_at
    /\ clock - sessions[2].created_at <= default_ttl

----------------------------------------------------------------------------
(* The status state machine *)

\* the edges of the specified lifecycle
LifecycleEdges ==
    {<<"PENDING", "RUNNING">>, <<"RUNNING", "PAUSED">>, <<"PAUSED", "RUNNING">>}
    \cup ((Statuses \ TerminalStatuses) \X TerminalStatuses)

\* C23: a method call changes the status of an operation only along an edge
\* of the lifecycle; it becomes RUNNING only by start() from PENDING or by
\* resume() from PAUSED.
C23_StatusFollowsEdges ==
    [][\A id \in OpIds, name \in TransitionCalls \cup {"update_state"} :
          Called(name, id) =>
             LET before == GetOperation(operations, id).status
                 after == GetOperation(operations', id).status
             IN before # after =>
                   /\ <<before, after>> \in LifecycleEdges
                   /\ after = "RUNNING" =>
                         \/ before = "PENDING" /\ name = "start"
                         \/ before = "PAUSED" /\ name = "resume"]_vars

-----------------------------------------------------------------------------
(* resume() without checkpoints *)

\* C24 as stated: resume() on an operation with no checkpoints ends with the
\* no-checkpoint error in every status.
C24_NoCheckpointInEveryStatus ==
    [][\A id \in OpIds :
          (Called("resume", id) /\ GetOperation(operations, id).checkpoints = <<>>)
             => opResult' = "no_checkpoint"]_vars

\* C24: resume() on an operation with no checkpoints ends with the
\* no-checkpoint error when the operation is PAUSED and with the
\* invalid-transition error in every other status; it changes nothing.
C24_NoCheckpointOnlyWhenPaused ==
    [][\A id \in OpIds :
          (Called("resume", id) /\ GetOperation(operations, id).checkpoints = <<>>)
             => /\ opResult' = IF GetOperation(operations, id).status = "PAUSED"
                               THEN "no_checkpoint" ELSE "invalid_transition"
                /\ operations' = operations]_vars

C24_Witness ==
    /\ opCall = OpCallRec("resume", "op1")
    /\ opResult = "no_checkpoint"
    /\ GetOperation(operations, "op1").status = "PAUSED"
    /\ GetOperation(operations, "op1").checkpoints = <<>>

-----------------------------------------------------------------------------
(* Loading the registry *)

\* every serialized operation of the file can be reconstructed
AllReconstructible(file) ==
    \A k \in 1..Len(file.operations) : Reconstructible(file.operations[k])

\* C26: constructing the manager over a missing or unreadable file, or over
\* a document with an operation that cannot be reconstructed, leaves the
\* registry empty and does not raise; over a document whose operations can
\* all be reconstructed it registers every one of them.
C26_LoadAllOrNothing ==
    [][opCall' = OpCallRec("restart", "") =>
          /\ opResult' = "ok"
          /\ IF storage.kind = "document" /\ AllReconstructible(storage)
             THEN /\ \A k \in 1..Len(storage.operations) :
                        Registered(operations', storage.operations[k].operation_id)
                  /\ \A k \in 1..Len(operations') :
                        \E j \in 1..Len(storage.operations) :
                           operations'[k] = FromDict(storage.operations[j])
             ELSE operations' = <<>>]_vars

\* a load that read one operation and failed on the next
C26_Witness ==
    /\ opCall = OpCallRec("restart", "")
    /\ storage.kind = "document"
    /\ Len(storage.operations) = 2
    /\ Reconstructible(storage.operations[1])
    /\ ~Reconstructible(storage.operations[2])
    /\ operations = <<>>

-----------------------------------------------------------------------------
(* update_state *)

\* C25: update_state(key, value) sets the live state at key to value and
\* changes nothing else: the status stays what it was, whatever it was, and
\* the checkpoints, their number and their state snapshots stay the same.
C25_UpdateStateOnlyLiveState ==
    [][\A id \in OpIds :
          Called("update_state", id) =>
             LET before == GetOperation(operations, id)
                 after == GetOperation(operations', id)
             IN /\ opResult' = "ok"
                /\ after.status = before.status
                /\ Len(after.checkpoints) = Len(before.checkpoints)
                /\ \A k \in 1..Len(before.checkpoints) :
                      after.checkpoints[k].state = before.checkpoints[k].state
                /\ \E key \in StateKeys, value \in StateValues :
                      after = [before EXCEPT !.state = DictSet(@, key, value)]]_vars

\* update_state on a paused operation whose live state has left the snapshot
C25_Witness ==
    /\ opCall = OpCallRec("update_state", "op1")
    /\ Registered(operations, "op1")
    /\ LET op == GetOperation(operations, "op1")
       IN /\ op.status = "PAUSED"
          /\ op.checkpoints # <<>>
          /\ op.state # op.checkpoints[Len(op.checkpoints)].state

-----------------------------------------------------------------------------
(* Compaction strategies *)

\* C27: with a strategy name that is none of the three, an add_context that
\* would exceed max_tokens returns False and leaves the entries, the token
\* total and the important set as they were; one that fits appends its entry.
C27_UnknownStrategyRefuses ==
    [][\A t \in Texts, n \in Lengths, role \in Roles, importance \in Importances :
          (/\ compaction_strategy \notin {"importance", "summarize", "truncate"}
           /\ AddContext(Str(t, n), role, importance))
          => IF current_tokens + EstimateTokens(Str(t, n)) > max_tokens
             THEN /\ ~ctxResult'.ok
                  /\ context_history' = context_history
                  /\ current_tokens' = current_tokens
                  /\ important_entries' = important_entries
             ELSE /\ ctxResult'.ok
                  /\ context_history' =
                        Append(context_history, NewEntry(Str(t, n), role, importance))
                  /\ current_tokens' = current_tokens + EstimateTokens(Str(t, n))]_vars

\* a refused add on a buffer that holds entries
C27_Witness ==
    /\ compaction_strategy = "unknown"
    /\ ctxCall = "add"
    /\ ~ctxResult.ok
    /\ context_history # <<>>

\* the members of a set of indices, ascending
RECURSIVE Ascending(_)
Ascending(S) ==
    IF S = {} THEN <<>>
    ELSE LET m == CHOOSE x \in S : \A y \in S : x <= y
         IN <<m>> \o Ascending(S \ {m})

\* the tokens of the entries at the first k indices of the list E
RECURSIVE PrefixTokens(_, _, _)
PrefixTokens(hist, E, k) ==
    IF k = 0 THEN 0 ELSE PrefixTokens(hist, E, k - 1) + hist[E[k] + 1].tokens

\* the smallest number of entries of E whose tokens reach required, or all
SmallestCount(hist, E, required) ==
    IF \E k \in 0..Len(E) : PrefixTokens(hist, E, k) >= required
    THEN CHOOSE k \in 0..Len(E) :
            /\ PrefixTokens(hist, E, k) >= required
            /\ \A j \in 0..(k - 1) : PrefixTokens(hist, E, j) < required
    ELSE Len(E)

\* hist without the k oldest entries that are not important, k as above
TruncateSurvivors(hist, imp, required) ==
    LET E == Ascending({i \in 0..(Len(hist) - 1) : i \notin imp})
        k == SmallestCount(hist, E, required)
        keep == Ascending({i \in 0..(Len(hist) - 1) : \A j \in 1..k : E[j] # i})
    IN [j \in 1..Len(keep) |-> hist[keep[j] + 1]]

\* C28: under the truncate strategy one compaction removes exactly the k
\* oldest entries outside the important set, k the smallest number whose
\* tokens reach the required tokens (all of them if they cannot); the
\* survivors keep their order.
C28_TruncateRemovesOldest ==
    [][/\ \A required \in RequiredChoices :
            (compaction_strategy = "truncate" /\ CompactContext(required))
            => context_history' =
                  TruncateSurvivors(context_history, important_entries, required)
       /\ \A t \in Texts, n \in Lengths, role \in Roles, importance \in Importances :
            (/\ compaction_strategy = "truncate"
             /\ AddContext(Str(t, n), role, importance)
             /\ ctxResult'.compacted)
            => LET left == TruncateSurvivors(context_history, important_entries,
                                             EstimateTokens(Str(t, n)))
               IN context_history' =
                     IF ctxResult'.ok
                     THEN Append(left, NewEntry(Str(t, n), role, importance))
                     ELSE left]_vars

\* the step runs a compaction under the summarize strategy
SummarizeStep ==
    /\ compaction_strategy = "summarize"
    /\ ctxCall' \in {"add", "compact"}
    /\ ctxResult'.compacted

\* the 0-based position i may be rewritten by a summarize compaction
Summarizable(hist, imp, i) ==
    /\ i < Len(hist) \div 2
    /\ i \notin imp
    /\ StrLen(hist[i + 1].content) > SummaryKeep

\* C29: a summarize compaction keeps every entry at its position; an entry
\* it changes lies in the first floor(n/2) positions, is outside the
\* important set and was longer than 100 characters, and only its content
\* and token count change; the important set is as before.
C29_SummarizeInPlace ==
    [][SummarizeStep =>
          LET n == Len(context_history)
          IN /\ Len(context_history') \in {n, n + 1}
             /\ Len(context_history') = n + 1 => ctxCall' = "add" /\ ctxResult'.ok
             /\ important_entries' \ {n} = important_entries
             /\ \A k \in 1..n :
                   \/ context_history'[k] = context_history[k]
                   \/ /\ Summarizable(context_history, important_entries, k - 1)
                      /\ context_history'[k] =
                            [context_history[k] EXCEPT
                               !.content = SummaryOf(@),
                               !.tokens = EstimateTokens(SummaryOf(
                                             context_history[k].content))]]_vars

\* after a compaction the first entry is a summary and the newest entry,
\* longer than 100 characters, is not
C29_Witness ==
    /\ compaction_strategy = "summarize"
    /\ ctxCall = "compact"
    /\ Len(context_history) >= 2
    /\ context_history[1].content.summarized
    /\ LET last == context_history[Len(context_history)].content
       IN ~last.summarized /\ StrLen(last) > SummaryKeep

\* C30: a summarize compaction leaves no entry longer or with more tokens
\* than it was, and compact_context under summarize never raises
\* current_tokens (the freed total is never negative).
C30_SummarizeOnlyShrinks ==
    [][SummarizeStep =>
          /\ \A k \in 1..Len(context_history) :
                /\ StrLen(context_history'[k].content)
                      <= StrLen(context_history[k].content)
                /\ context_history'[k].tokens <= context_history[k].tokens
          /\ ctxCall' = "compact" => current_tokens' <= current_tokens]_vars

-----------------------------------------------------------------------------
(* The important set *)

\* C33: in every reachable state important_entries is exactly the set of
\* 0-based positions of the entries whose importance is >= 8.
C33_ImportantSetExact ==
    important_entries =
       {i \in 0..(Len(context_history) - 1) : context_history[i + 1].importance >= 8}

\* an add that evicted entries left an important entry at the front
C33_Witness ==
    /\ compaction_strategy \in {"importance", "truncate"}
    /\ ctxCall = "add" /\ ctxResult.ok /\ ctxResult.compacted
    /\ Len(context_history) = 2
    /\ important_entries = {0}

-----------------------------------------------------------------------------
(* The importance threshold *)

\* the entries with importance 5 or more, oldest first
RECURSIVE KeptByImportance(_)
KeptByImportance(hist) ==
    IF hist = <<>> THEN <<>>
    ELSE IF hist[1].importance >= 5
         THEN <<hist[1]>> \o KeptByImportance(Tail(hist))
         ELSE KeptByImportance(Tail(hist))

-----------------------------------------------------------------------------
(* Failed adds *)

\* the entries a removing strategy cannot evict, oldest first; i is the
\* 0-based index examined next
RECURSIVE NotEligible(_, _, _, _)
NotEligible(strategy, hist, imp, i) ==
    IF i >= Len(hist) THEN <<>>
    ELSE IF i \in imp \/ (strategy = "importance" /\ hist[i + 1].importance >= 5)
         THEN <<hist[i + 1]>> \o NotEligible(strategy, hist, imp, i + 1)
         ELSE NotEligible(strategy, hist, imp, i + 1)

\* C35: under the importance and truncate strategies an add_context that
\* returns False does not append the entry, but it has removed every entry
\* that was eligible for eviction and reduced current_tokens by their
\* tokens: the buffer holds exactly the entries that were not eligible.
C35_FailedAddEvictsEligible ==
    [][(/\ compaction_strategy \in {"importance", "truncate"}
        /\ ctxCall' = "add"
        /\ ~ctxResult'.ok)
       => LET left == NotEligible(compaction_strategy, context_history,
                                  important_entries, 0)
          IN /\ context_history' = left
             /\ current_tokens' = SumTokens(left)
             /\ Cardinality(important_entries') = Cardinality(important_entries)]_vars

\* a refused add that emptied the buffer: the add exceeded the budget, so
\* the buffer held tokens before it
C35_Witness ==
    /\ compaction_strategy \in {"importance", "truncate"}
    /\ ctxCall = "add" /\ ~ctxResult.ok
    /\ context_history = <<>>
    /\ current_tokens = 0

-----------------------------------------------------------------------------
(* Checkpoints *)

\* C36: an operation built by the constructor and driven only through its
\* methods has a checkpoint whenever it is PAUSED, and resume() never ends
\* with the no-checkpoint error.
C36_PausedHasCheckpoint ==
    /\ \A k \in 1..Len(operations) :
          operations[k].status = "PAUSED" => operations[k].checkpoints # <<>>
    /\ opResult # "no_checkpoint"

\* a paused operation that was paused, resumed and paused again
C36_Witness ==
    /\ opCall = OpCallRec("pause", "op1")
    /\ opResult = "ok"
    /\ GetOperation(operations, "op1").status = "PAUSED"
    /\ Len(GetOperation(operations, "op1").checkpoints) = 2

\* C37: no method call removes or reorders checkpoints; a call adds a
\* checkpoint exactly when it is a pause() that succeeds, so that checkpoint
\* k is the one of the k-th successful pause; a resume() that succeeds takes
\* the state of the last checkpoint and leaves the list as it was.
C37_CheckpointsAppendOnly ==
    [][\A id \in OpIds, name \in TransitionCalls \cup {"update_state"} :
          Called(name, id) =>
             LET before == GetOperation(operations, id)
                 after == GetOperation(operations', id)
             IN /\ IsPrefix(before.checkpoints, after.checkpoints)
                /\ Len(after.checkpoints) =
                      Len(before.checkpoints)
                      + (IF name = "pause" /\ opResult' = "ok" THEN 1 ELSE 0)
                /\ \A k \in 1..Len(after.checkpoints) :
                      after.checkpoints[k].checkpoint_id = k - 1
                /\ (name = "resume" /\ opResult' = "ok")
                   => after.state = before.checkpoints[Len(before.checkpoints)].state]_vars

\* a resume from the second checkpoint, which is still the last of two
C37_Witness ==
    /\ opCall = OpCallRec("resume", "op1")
    /\ opResult = "ok"
    /\ Len(GetOperation(operations, "op1").checkpoints) = 2

-----------------------------------------------------------------------------
(* portfolio_update and failure *)

\* C39: no step of portfolio_update leaves an operation FAILED or with an
\* error message; a call with an operation id whose fetch returns an error
\* returns the GitHub-analysis error and leaves the operation PAUSED, its
\* last checkpoint the one of the fetch stage with the error summary in its
\* state snapshot.
C39_FetchErrorLeavesPaused ==
    [][/\ (pipePc # "idle" \/ pipePc' # "idle")
          => \A k \in 1..Len(operations') :
                /\ operations'[k].status # "FAILED"
                /\ operations'[k].error_message = None
       /\ (/\ pipePc = "fetch" /\ pipePc' = "idle"
           /\ pipe'.operation_id # None
           /\ InCalls("fetch")'
           /\ "error" \in DOMAIN pipe'.summary[1])
          => LET op == GetOperation(operations', pipe'.operation_id[1])
                 last == op.checkpoints[Len(op.checkpoints)]
             IN /\ pipe'.result = Some([kind |-> "returned",
                                        value |-> ErrorDict("GitHub analysis failed")])
                /\ op.status = "PAUSED"
                /\ op.checkpoints # <<>>
                /\ last.data = [step |-> "github_analysis_complete"]
                /\ last.state.github_summary = pipe'.summary[1]
                /\ op.error_message = None]_vars

\* a call with an operation id ended on a fetch error
C39_Witness ==
    /\ RunEnded
    /\ pipe.operation_id # None
    /\ FetchFailed
    /\ GetOperation(operations, pipe.operation_id[1]).status = "PAUSED"

-----------------------------------------------------------------------------
(* Delivery order and multiplicity *)

\* the message is waiting in the queue
InQueue(message) ==
    \E k \in 1..Len(message_queue) : message_queue[k] = message

\* the message has been handed to the handler of agent
DeliveredTo(message, agent) ==
    \E k \in 1..Len(deliveries) :
       deliveries[k].n = message.n /\ deliveries[k].agent = agent

\* C32: the messages handed to one handler are handed to it in the order
\* they were sent, those sent by handlers during the drain included; when
\* process_messages returns, every message sent so far to a registered
\* agent has been handed to its handler.
C32_DeliveredInSendOrder ==
    /\ \A i, j \in 1..Len(deliveries) :
          (i < j /\ deliveries[i].agent = deliveries[j].agent)
             => deliveries[i].n < deliveries[j].n
    /\ (relayPc = "processing" /\ message_queue = <<>>)
          => \A k \in 1..Len(message_history) :
                LET message == message_history[k]
                IN IsRegistered(agents, message.to_agent)
                      => DeliveredTo(message, message.to_agent)

\* the response a handler sent during the drain reached a handler that had
\* already received an earlier message, and the drain is over
C32_Witness ==
    /\ relayPc = "processing" /\ message_queue = <<>>
    /\ \E i, j \in 1..Len(deliveries) :
          /\ i < j
          /\ deliveries[i].agent = deliveries[j].agent
          /\ message_history[deliveries[j].n].message_type = "RESPONSE"

\* C38: no message is handed to the same handler twice; a message that was
\* handed to the handler of its destination, raising or not, is not in the
\* queue again; the queue never holds a message twice.
C38_DeliveredAtMostOnce ==
    /\ \A i, j \in 1..Len(deliveries) :
          (deliveries[i].agent = deliveries[j].agent
           /\ deliveries[i].n = deliveries[j].n) => i = j
    /\ \A k \in 1..Len(deliveries) :
          LET message == message_history[deliveries[k].n]
          IN /\ ~InQueue(message)
             /\ relayMessage # Some(message)
    /\ \A i, j \in 1..Len(message_queue) :
          message_queue[i] = message_queue[j] => i = j
    /\ relayMessage # None => ~InQueue(relayMessage[1])

\* a handler raised on a message sent after one that is back in the queue
\* after a miss
C38_Witness ==
    \E k \in 1..Len(deliveries), q \in 1..Len(message_queue) :
       /\ deliveries[k].raised
       /\ message_queue[q].n < deliveries[k].n

-----------------------------------------------------------------------------
(* The re-queue limit *)

\* the message is neither in the queue nor the one being dispatched
Gone(message) == ~InQueue(message) /\ relayMessage # Some(message)

\* the popped message is addressed to an agent that is not registered
Missed ==
    /\ relayPc = "dispatch"
    /\ relayMessage[1].to_agent # Broadcast
    /\ ~IsRegistered(agents, relayMessage[1].to_agent)

\* C31: a popped message whose destination is not registered is re-appended
\* to the tail exactly when the queue holds fewer than 100 messages, so the
\* queue is never longer than 100 after it; otherwise it is dropped, and a
\* message that is gone from the queue is never queued or handed to a
\* handler afterwards, whoever registers.
C31_RequeueBelowLimit ==
    [][/\ (Missed /\ relayPc' = "processing")
          => /\ message_queue' = IF Len(message_queue) < 100
                                 THEN Append(message_queue, relayMessage[1])
                                 ELSE message_queue
             /\ Len(message_queue') <= 100
             /\ deliveries' = deliveries
       /\ \A k \in 1..Len(message_history) :
            Gone(message_history[k])
               => /\ Gone(message_history[k])'
                  /\ \A j \in (Len(deliveries) + 1)..Len(deliveries') :
                        deliveries'[j].n # message_history[k].n]_vars

\* the message for "b" was dropped, the drain ended, and "b" has registered
C31_Witness ==
    /\ relayPc = "idle"
    /\ IsRegistered(agents, "b")
    /\ deliveries # <<>>
    /\ \E k \in 1..Len(message_history) :
          /\ message_history[k].to_agent = "b"
          /\ Gone(message_history[k])
          /\ \A j \in 1..Len(deliveries) : deliveries[j].n # message_history[k].n

====
